---- MODULE Spec2Model ----
(***************************************************************************)
(* A model of the mini-rdbms engine: the session (RDBMS), the executors,   *)
(* the table storage (TableStorage), its indexes (IndexManager) and the    *)
(* type validator (TypeValidator).  Statements enter the model as the      *)
(* statement trees the parser hands to RDBMS.executeStatement.             *)
(*                                                                         *)
(* Values are the JavaScript values a row can hold: null, a number, a      *)
(* string or a boolean.  The model covers the column types INTEGER, TEXT   *)
(* and BOOLEAN and integer-valued numbers; REAL and DATE columns and       *)
(* fractional literals are outside its bounds.                             *)
(***************************************************************************)
EXTENDS Integers, Sequences, FiniteSets, TLC

(***************************************************************************)
(* Bounds of the model.                                                    *)
(***************************************************************************)
\* Rows a table may hold before INSERT is no longer offered.
MaxRows == 2
\* Largest value of the auto-increment counter at which INSERT is offered.
MaxCounter == 2

(***************************************************************************)
(* ColumnValue (types/database.ts): string | number | boolean | null.      *)
(***************************************************************************)
NULL == [k |-> "null"]
Num(n) == [k |-> "num", n |-> n]
Str(s) == [k |-> "str", s |-> s]
Bool(b) == [k |-> "bool", b |-> b]

\* The absent statement part (where: null, columns: null).
None == [k |-> "none"]

\* The select list '*'.
Star == [k |-> "star"]

\* String.prototype.toLowerCase on the strings of the model.
ToLowerCase(s) ==
  CASE s = "A" -> "a"
    [] s = "B" -> "b"
    [] s = "TRUE" -> "true"
    [] OTHER -> s

\* parseInt(value, 10) followed by the round-trip test
\* parsed.toString() !== value: the strings of the model that are the
\* decimal form of an integer, and the integer they denote.
IntegerStrings == {"0", "1", "2", "3"}

ParseInt(s) ==
  CASE s = "0" -> 0
    [] s = "1" -> 1
    [] s = "2" -> 2
    [] s = "3" -> 3
    [] OTHER -> 0

\* String(value) for a number or a boolean.
NumberToString(n) ==
  CASE n = 0 -> "0"
    [] n = 1 -> "1"
    [] n = 2 -> "2"
    [] n = 3 -> "3"
    [] OTHER -> "n"

BooleanToString(b) == IF b THEN "true" ELSE "false"

(***************************************************************************)
(* TypeValidator.validate: [valid, value, error] where error is the        *)
(* violation type ("NONE" when valid).                                     *)
(***************************************************************************)
Valid(v) == [valid |-> TRUE, value |-> v, error |-> "NONE"]
Invalid(e) == [valid |-> FALSE, value |-> NULL, error |-> e]

validateInteger(value) ==
  IF value.k = "num" THEN Valid(value)
  ELSE IF value.k = "str"
       THEN IF value.s \in IntegerStrings
            THEN Valid(Num(ParseInt(value.s)))
            ELSE Invalid("TYPE_MISMATCH")
       ELSE Invalid("TYPE_MISMATCH")

validateText(value) ==
  IF value.k = "str" THEN Valid(value)
  ELSE IF value.k = "num" THEN Valid(Str(NumberToString(value.n)))
  ELSE IF value.k = "bool" THEN Valid(Str(BooleanToString(value.b)))
  ELSE Invalid("TYPE_MISMATCH")

validateBoolean(value) ==
  IF value.k = "bool" THEN Valid(value)
  ELSE IF value.k = "str" /\ ToLowerCase(value.s) \in {"true", "1", "yes"}
       THEN Valid(Bool(TRUE))
  ELSE IF value.k = "str" /\ ToLowerCase(value.s) \in {"false", "0", "no"}
       THEN Valid(Bool(FALSE))
  ELSE IF value.k = "num" THEN Valid(Bool(value.n # 0))
  ELSE Invalid("TYPE_MISMATCH")

\* value is NULL for both null and undefined (a column the statement omits).
validate(value, expectedType, allowNull) ==
  IF value = NULL
  THEN IF allowNull THEN Valid(NULL) ELSE Invalid("NOT_NULL")
  ELSE CASE expectedType = "INTEGER" -> validateInteger(value)
         [] expectedType = "TEXT" -> validateText(value)
         [] expectedType = "BOOLEAN" -> validateBoolean(value)
         [] OTHER -> Invalid("TYPE_MISMATCH")

(***************************************************************************)
(* IndexManager.  An index is [columnName, unique, entries]; entries is a  *)
(* function from normalised keys to non-empty sets of row positions (the   *)
(* Map<ColumnValue, Set<number>> of the code).                             *)
(***************************************************************************)
createIndex(columnName, unique) ==
  [columnName |-> columnName, unique |-> unique, entries |-> <<>>]

normalizeValue(value) ==
  IF value.k = "str" THEN Str(ToLowerCase(value.s)) ELSE value

\* A function with one more (or one overwritten) key.
MapSet(f, key, val) ==
  [x \in (DOMAIN f) \cup {key} |-> IF x = key THEN val ELSE f[x]]

MapDelete(f, key) == [x \in (DOMAIN f) \ {key} |-> f[x]]

\* addEntry: [violation, index].  The violation is "UNIQUE" or "NONE".
addEntry(index, value, rowIndex) ==
  LET normalizedValue == normalizeValue(value)
      has == normalizedValue \in DOMAIN index.entries
  IN  IF index.unique /\ has /\ Cardinality(index.entries[normalizedValue]) > 0
      THEN [violation |-> "UNIQUE", index |-> index]
      ELSE [violation |-> "NONE",
            index |-> [index EXCEPT !.entries =
              MapSet(@, normalizedValue,
                     IF has THEN @[normalizedValue] \cup {rowIndex}
                     ELSE {rowIndex})]]

removeEntry(index, value, rowIndex) ==
  LET normalizedValue == normalizeValue(value)
  IN  IF normalizedValue \in DOMAIN index.entries
      THEN LET indices == index.entries[normalizedValue] \ {rowIndex}
           IN  IF indices = {}
               THEN [index EXCEPT !.entries = MapDelete(@, normalizedValue)]
               ELSE [index EXCEPT !.entries = MapSet(@, normalizedValue, indices)]
      ELSE index

\* updateEntry adding the new key without removing the old one.
updateEntry_Mutant(index, oldValue, newValue, rowIndex) ==
  addEntry(index, newValue, rowIndex)

updateEntry(index, oldValue, newValue, rowIndex) ==
  addEntry(removeEntry(index, oldValue, rowIndex), newValue, rowIndex)

lookup(index, value) ==
  LET normalizedValue == normalizeValue(value)
  IN  IF normalizedValue \in DOMAIN index.entries
      THEN index.entries[normalizedValue]
      ELSE {}

\* rebuild: clear, then re-add the values in order, stopping at the first
\* violation.  values is a sequence of [value, rowIndex].
RECURSIVE rebuildFrom(_, _, _)
\* The loop body after addEntry has returned r.
rebuildAdded(r, values, i) ==
  IF r.violation # "NONE" THEN r.index
  ELSE rebuildFrom(r.index, values, i + 1)

rebuildFrom(index, values, i) ==
  IF i > Len(values) THEN index
  ELSE rebuildAdded(addEntry(index, values[i].value, values[i].rowIndex),
                    values, i)

rebuild(index, values) ==
  rebuildFrom([index EXCEPT !.entries = <<>>], values, 1)

(***************************************************************************)
(* Schemas.  A column definition is [name, type, primaryKey,               *)
(* autoIncrement, unique, notNull, defaultValue]; a schema is [name,       *)
(* columns, primaryKey, uniqueColumns].  A null primaryKey is the empty    *)
(* string (both are falsy in the code's tests).                            *)
(***************************************************************************)
NoPrimaryKey == ""

Range(seq) == {seq[i] : i \in DOMAIN seq}

ColumnNames(schema) == {schema.columns[i].name : i \in DOMAIN schema.columns}

\* schema.columns.find((c) => c.name === columnName): the first match.
FindColumn(schema, columnName) ==
  LET hits == {i \in DOMAIN schema.columns : schema.columns[i].name = columnName}
  IN  schema.columns[CHOOSE i \in hits : \A j \in hits : i <= j]

\* row[columnName] ?? null
RowValue(row, columnName) ==
  IF columnName \in DOMAIN row THEN row[columnName] ELSE NULL

(***************************************************************************)
(* TableStorage: [schema, rows, indices, autoIncrementCounter].  rows is   *)
(* the row vector (positions 0.. in the code are 1.. in the sequence; the  *)
(* indexes hold the code's 0-based positions).  indices maps a column      *)
(* name to its index.                                                      *)
(***************************************************************************)
RECURSIVE initializeIndicesFrom(_, _, _)
initializeIndicesFrom(schema, indices, i) ==
  IF i > Len(schema.columns) THEN indices
  ELSE LET column == schema.columns[i]
       IN  initializeIndicesFrom(schema,
             IF column.primaryKey \/ column.unique
             THEN MapSet(indices, column.name, createIndex(column.name, TRUE))
             ELSE indices,
             i + 1)

initializeIndices(schema) == initializeIndicesFrom(schema, <<>>, 1)

\* new TableStorage(schema)
NewTableStorage(schema) ==
  [schema |-> schema,
   rows |-> <<>>,
   indices |-> initializeIndices(schema),
   autoIncrementCounter |-> 1]

\* The non-null values of a column paired with their 0-based positions.
RECURSIVE indexValuesFrom(_, _, _)
indexValuesFrom(rows, columnName, i) ==
  IF i > Len(rows) THEN <<>>
  ELSE LET value == RowValue(rows[i], columnName)
           rest == indexValuesFrom(rows, columnName, i + 1)
       IN  IF value # NULL
           THEN <<[value |-> value, rowIndex |-> i - 1]>> \o rest
           ELSE rest

rebuildAllIndices(indices, rows) ==
  [columnName \in DOMAIN indices |->
     rebuild(indices[columnName], indexValuesFrom(rows, columnName, 1))]

rollbackIndexAdditions(indices, row, rowIndex) ==
  [columnName \in DOMAIN indices |->
     removeEntry(indices[columnName], RowValue(row, columnName), rowIndex)]

\* insertRow, first loop, taking the key from the counter without
\* advancing it.
RECURSIVE prepareRowFrom_Mutant(_, _, _, _, _, _)
prepareValidated_Mutant(schema, data, i, preparedRow, counter, lastInsertId, validation) ==
  IF ~validation.valid
  THEN [valid |-> FALSE, row |-> preparedRow, counter |-> counter,
        lastInsertId |-> lastInsertId, error |-> validation.error,
        column |-> schema.columns[i].name]
  ELSE prepareRowFrom_Mutant(schema, data, i + 1,
            MapSet(preparedRow, schema.columns[i].name, validation.value),
            counter, lastInsertId)

prepareRowFrom_Mutant(schema, data, i, preparedRow, counter, lastInsertId) ==
  IF i > Len(schema.columns)
  THEN [valid |-> TRUE, row |-> preparedRow, counter |-> counter,
        lastInsertId |-> lastInsertId, error |-> "NONE", column |-> ""]
  ELSE LET column == schema.columns[i]
           auto == column.autoIncrement /\ column.primaryKey
           given == IF column.name \in DOMAIN data THEN data[column.name] ELSE NULL
           value == IF auto THEN Num(counter)
                    ELSE IF column.name \notin DOMAIN data
                            /\ column.defaultValue # NULL
                         THEN column.defaultValue
                         ELSE given
       IN  prepareValidated_Mutant(schema, data, i, preparedRow,
             counter,
             IF auto THEN Num(counter) ELSE lastInsertId,
             validate(value, column.type, ~column.notNull))

\* insertRow, first loop: validate and prepare the row, column by column.
\* The counter is advanced as soon as the auto-increment column is met.
RECURSIVE prepareRowFrom(_, _, _, _, _, _)
\* The loop body after TypeValidator.validate has returned validation.
prepareValidated(schema, data, i, preparedRow, counter, lastInsertId, validation) ==
  IF ~validation.valid
  THEN [valid |-> FALSE, row |-> preparedRow, counter |-> counter,
        lastInsertId |-> lastInsertId, error |-> validation.error,
        column |-> schema.columns[i].name]
  ELSE prepareRowFrom(schema, data, i + 1,
            MapSet(preparedRow, schema.columns[i].name, validation.value),
            counter, lastInsertId)

\* insertRow storing the value the statement supplies for the
\* auto-increment column when it supplies one.
prepareRowFrom_MutantSupplied(schema, data, i, preparedRow, counter, lastInsertId) ==
  IF i > Len(schema.columns)
  THEN [valid |-> TRUE, row |-> preparedRow, counter |-> counter,
        lastInsertId |-> lastInsertId, error |-> "NONE", column |-> ""]
  ELSE LET column == schema.columns[i]
           auto == column.autoIncrement /\ column.primaryKey
           given == IF column.name \in DOMAIN data THEN data[column.name] ELSE NULL
           value == IF auto /\ given = NULL THEN Num(counter)
                    ELSE IF column.name \notin DOMAIN data
                            /\ column.defaultValue # NULL
                         THEN column.defaultValue
                         ELSE given
       IN  prepareValidated(schema, data, i, preparedRow,
             IF auto THEN counter + 1 ELSE counter,
             IF auto THEN Num(counter) ELSE lastInsertId,
             validate(value, column.type, ~column.notNull))

prepareRowFrom(schema, data, i, preparedRow, counter, lastInsertId) ==
  IF i > Len(schema.columns)
  THEN [valid |-> TRUE, row |-> preparedRow, counter |-> counter,
        lastInsertId |-> lastInsertId, error |-> "NONE", column |-> ""]
  ELSE LET column == schema.columns[i]
           auto == column.autoIncrement /\ column.primaryKey
           given == IF column.name \in DOMAIN data THEN data[column.name] ELSE NULL
           value == IF auto THEN Num(counter)
                    ELSE IF column.name \notin DOMAIN data
                            /\ column.defaultValue # NULL
                         THEN column.defaultValue
                         ELSE given
       IN  prepareValidated(schema, data, i, preparedRow,
             IF auto THEN counter + 1 ELSE counter,
             IF auto THEN Num(counter) ELSE lastInsertId,
             validate(value, column.type, ~column.notNull))

\* insertRow, second loop: the primary-key check and then the unique check
\* of each column, each adding the row position to an index.
RECURSIVE checkConstraintsFrom(_, _, _, _, _)
\* The unique check after addEntry has returned uq.
checkUniqueAdded(schema, indices, i, preparedRow, rowIndex, uq) ==
  IF uq.violation # "NONE"
  THEN [violation |-> uq.violation, column |-> schema.columns[i].name,
        indices |-> rollbackIndexAdditions(indices, preparedRow, rowIndex)]
  ELSE checkConstraintsFrom(schema,
         [indices EXCEPT ![schema.columns[i].name] = uq.index],
         i + 1, preparedRow, rowIndex)

\* The unique check of column i.
checkUnique(schema, indices, i, preparedRow, rowIndex) ==
  IF schema.columns[i].unique /\ schema.columns[i].name \in DOMAIN indices
  THEN checkUniqueAdded(schema, indices, i, preparedRow, rowIndex,
         addEntry(indices[schema.columns[i].name],
                  RowValue(preparedRow, schema.columns[i].name), rowIndex))
  ELSE checkConstraintsFrom(schema, indices, i + 1, preparedRow, rowIndex)

\* The primary-key check after addEntry has returned pk.
checkPrimaryKeyAdded(schema, indices, i, preparedRow, rowIndex, pk) ==
  IF pk.violation # "NONE"
  THEN [violation |-> pk.violation, column |-> schema.primaryKey,
        indices |-> rollbackIndexAdditions(indices, preparedRow, rowIndex)]
  ELSE checkUnique(schema, [indices EXCEPT ![schema.primaryKey] = pk.index],
                   i, preparedRow, rowIndex)

checkConstraintsFrom(schema, indices, i, preparedRow, rowIndex) ==
  IF i > Len(schema.columns)
  THEN [violation |-> "NONE", column |-> "", indices |-> indices]
  ELSE IF /\ schema.columns[i].primaryKey
          /\ schema.primaryKey # NoPrimaryKey
          /\ schema.primaryKey \in DOMAIN indices
  THEN checkPrimaryKeyAdded(schema, indices, i, preparedRow, rowIndex,
         addEntry(indices[schema.primaryKey],
                  RowValue(preparedRow, schema.columns[i].name), rowIndex))
  ELSE checkUnique(schema, indices, i, preparedRow, rowIndex)

\* insertRow(data): [success, table, rowIndex, lastInsertId, assigned, error,
\* column].  assigned is the value the first loop took from the counter
\* (NULL when the table has no auto-increment column), also when the
\* insertion fails afterwards; lastInsertId is what the caller is given.
insertChecked(table, prepared, checked) ==
  IF checked.violation # "NONE"
  THEN [success |-> FALSE,
        table |-> [table EXCEPT !.autoIncrementCounter = prepared.counter,
                                !.indices = checked.indices],
        rowIndex |-> Len(table.rows),
        lastInsertId |-> NULL, assigned |-> prepared.lastInsertId,
        error |-> checked.violation, column |-> checked.column]
  ELSE [success |-> TRUE,
        table |-> [table EXCEPT !.autoIncrementCounter = prepared.counter,
                                !.indices = checked.indices,
                                !.rows = Append(@, prepared.row)],
        rowIndex |-> Len(table.rows),
        lastInsertId |-> prepared.lastInsertId,
        assigned |-> prepared.lastInsertId,
        error |-> "NONE", column |-> ""]

insertPrepared(table, prepared) ==
  IF ~prepared.valid
  THEN [success |-> FALSE,
        table |-> [table EXCEPT !.autoIncrementCounter = prepared.counter],
        rowIndex |-> Len(table.rows),
        lastInsertId |-> NULL, assigned |-> prepared.lastInsertId,
        error |-> prepared.error, column |-> prepared.column]
  ELSE insertChecked(table, prepared,
         checkConstraintsFrom(table.schema, table.indices, 1, prepared.row,
                              Len(table.rows)))

insertRow(table, data) ==
  insertPrepared(table,
    prepareRowFrom(table.schema, data, 1, <<>>, table.autoIncrementCounter,
                   NULL))

(***************************************************************************)
(* WHERE evaluation.  A condition is [type |-> "CONDITION", column,        *)
(* operator, value] or [type |-> "LOGICAL", operator, left, right]; a      *)
(* where clause is None or [conditions |-> <<condition>>].                 *)
(***************************************************************************)
\* parseFloat(value): the number a string of the model starts with, or
\* NULL for NaN.
ParseFloat(s) == IF s \in IntegerStrings THEN Num(ParseInt(s)) ELSE NULL

\* toNumber: number | null
toNumber(value) ==
  IF value.k = "num" THEN value
  ELSE IF value.k = "str" THEN ParseFloat(value.s)
  ELSE NULL

numericCompare(left, right) ==
  LET leftNum == toNumber(left)
      rightNum == toNumber(right)
  IN  IF leftNum = NULL \/ rightNum = NULL THEN 0
      ELSE leftNum.n - rightNum.n

normalize(value) ==
  IF value.k = "str" THEN Str(ToLowerCase(value.s)) ELSE value

\* likeCompare on the patterns of the model: a pattern of letters and
\* digits matches the strings equal to it without regard to case, and the
\* pattern % matches every string.
likeCompare(left, pattern) ==
  IF left.k # "str" \/ pattern.k # "str" THEN FALSE
  ELSE IF pattern.s = "%" THEN TRUE
  ELSE ToLowerCase(left.s) = ToLowerCase(pattern.s)

\* DeleteExecutor.evaluateCondition
RECURSIVE evaluateCondition(_, _)
evaluateCondition(row, condition) ==
  IF condition.type = "LOGICAL"
  THEN LET leftResult == evaluateCondition(row, condition.left)
           rightResult == evaluateCondition(row, condition.right)
       IN  IF condition.operator = "AND"
           THEN leftResult /\ rightResult
           ELSE leftResult \/ rightResult
  ELSE LET left == RowValue(row, condition.column)
           right == condition.value
           operator == condition.operator
       IN  IF left = NULL \/ right = NULL
           THEN IF operator = "=" THEN left = right
                ELSE IF operator = "!=" THEN left # right
                ELSE FALSE
           ELSE CASE operator = "=" -> normalize(left) = normalize(right)
                  [] operator = "!=" -> normalize(left) # normalize(right)
                  [] operator = ">" -> numericCompare(left, right) > 0
                  [] operator = "<" -> numericCompare(left, right) < 0
                  [] operator = ">=" -> numericCompare(left, right) >= 0
                  [] operator = "<=" -> numericCompare(left, right) <= 0
                  [] operator = "LIKE" -> likeCompare(left, right)
                  [] OTHER -> FALSE

\* DeleteExecutor.evaluateWhere, and the filter of an absent WHERE.
evaluateWhere(row, where) ==
  IF where = None THEN TRUE
  ELSE \A i \in DOMAIN where.conditions :
         evaluateCondition(row, where.conditions[i])

\* The 0-based positions of the rows the filter accepts, ascending.
RECURSIVE matchingIndicesFrom(_, _, _)
matchingIndicesFrom(rows, where, i) ==
  IF i > Len(rows) THEN <<>>
  ELSE (IF evaluateWhere(rows[i], where) THEN <<i - 1>> ELSE <<>>)
       \o matchingIndicesFrom(rows, where, i + 1)

(***************************************************************************)
(* TableStorage.updateRows(updates, filter).  updates is the sequence of   *)
(* [column, value] that Object.entries(updates) walks; the filter is the   *)
(* where clause the executor built it from.                                *)
(***************************************************************************)
\* updateRows without its validation loop.
validateUpdatesFrom_Mutant(schema, updates, i) ==
  [error |-> "NONE", column |-> ""]

\* The validation loop: the first error, or "NONE".
RECURSIVE validateUpdatesFrom(_, _, _)
validateUpdatesFrom(schema, updates, i) ==
  IF i > Len(updates) THEN [error |-> "NONE", column |-> ""]
  ELSE LET columnName == updates[i].column
       IN  IF columnName \notin ColumnNames(schema)
           THEN [error |-> "TYPE_MISMATCH", column |-> columnName]
           ELSE LET column == FindColumn(schema, columnName)
                    validation == validate(updates[i].value, column.type,
                                           ~column.notNull)
                IN  IF ~validation.valid
                    THEN [error |-> validation.error, column |-> columnName]
                    ELSE validateUpdatesFrom(schema, updates, i + 1)

\* The update loops: rows in position order (a), and for each row the
\* updates in order (u).  A violation returns at once, with the old index
\* entry already removed and the row not yet written.
RECURSIVE performUpdatesFrom(_, _, _, _, _)
\* row[columnName] = newValue, and on to the next update.
performWrite(table, affectedIndices, updates, a, u) ==
  performUpdatesFrom(
    [table EXCEPT !.rows[affectedIndices[a] + 1] =
       MapSet(@, updates[u].column, updates[u].value)],
    affectedIndices, updates, a, u + 1)

\* The update of an indexed column after updateEntry has returned r.
performIndexed(table, affectedIndices, updates, a, u, r) ==
  IF r.violation # "NONE"
  THEN [violation |-> r.violation, column |-> updates[u].column,
        table |-> [table EXCEPT !.indices[updates[u].column] = r.index]]
  ELSE performWrite([table EXCEPT !.indices[updates[u].column] = r.index],
                    affectedIndices, updates, a, u)

performUpdatesFrom(table, affectedIndices, updates, a, u) ==
  IF a > Len(affectedIndices)
  THEN [violation |-> "NONE", column |-> "", table |-> table]
  ELSE IF u > Len(updates)
  THEN performUpdatesFrom(table, affectedIndices, updates, a + 1, 1)
  ELSE LET rowIndex == affectedIndices[a]
           row == table.rows[rowIndex + 1]
           columnName == updates[u].column
       IN  IF columnName \in DOMAIN table.indices /\ columnName \in DOMAIN row
           THEN performIndexed(table, affectedIndices, updates, a, u,
                  updateEntry(table.indices[columnName], row[columnName],
                              updates[u].value, rowIndex))
           ELSE performWrite(table, affectedIndices, updates, a, u)

updatePerformed(affectedIndices, performed) ==
  IF performed.violation # "NONE"
  THEN [success |-> FALSE, rowsAffected |-> 0,
        error |-> performed.violation, column |-> performed.column,
        table |-> performed.table]
  ELSE [success |-> TRUE, rowsAffected |-> Len(affectedIndices),
        error |-> "NONE", column |-> "", table |-> performed.table]

updateValidated(table, updates, affectedIndices, validation) ==
  IF validation.error # "NONE"
  THEN [success |-> FALSE, rowsAffected |-> 0, error |-> validation.error,
        column |-> validation.column, table |-> table]
  ELSE updatePerformed(affectedIndices,
         performUpdatesFrom(table, affectedIndices, updates, 1, 1))

\* updateRows: [success, rowsAffected, error, column, table]
updateRows(table, updates, where) ==
  updateValidated(table, updates, matchingIndicesFrom(table.rows, where, 1),
                  validateUpdatesFrom(table.schema, updates, 1))

(***************************************************************************)
(* TableStorage.deleteRows(filter): [rowsAffected, table]                  *)
(***************************************************************************)
\* The first loop: every matching row's entries leave the indexes.
RECURSIVE removeFromIndicesFrom(_, _, _, _)
removeFromIndicesFrom(indices, rows, indicesToDelete, d) ==
  IF d > Len(indicesToDelete) THEN indices
  ELSE LET rowIndex == indicesToDelete[d]
           row == rows[rowIndex + 1]
       IN  removeFromIndicesFrom(
             [columnName \in DOMAIN indices |->
                IF columnName \in DOMAIN row
                THEN removeEntry(indices[columnName], row[columnName], rowIndex)
                ELSE indices[columnName]],
             rows, indicesToDelete, d + 1)

\* The splice loop: the rows at the deleted positions leave the vector.
RECURSIVE spliceFrom(_, _, _)
spliceFrom(rows, indicesToDelete, i) ==
  IF i > Len(rows) THEN <<>>
  ELSE (IF (i - 1) \in Range(indicesToDelete) THEN <<>> ELSE <<rows[i]>>)
       \o spliceFrom(rows, indicesToDelete, i + 1)

deleteSpliced(table, indicesToDelete, removed, rows) ==
  [rowsAffected |-> Len(indicesToDelete),
   table |-> [table EXCEPT !.rows = rows,
                           !.indices = rebuildAllIndices(removed, rows)]]

\* deleteRows removing the first matching row only.
deleteMatching_Mutant(table, indicesToDelete) ==
  LET first == IF indicesToDelete = <<>> THEN <<>> ELSE <<indicesToDelete[1]>>
  IN  deleteSpliced(table, first,
        removeFromIndicesFrom(table.indices, table.rows, first, 1),
        spliceFrom(table.rows, first, 1))

deleteMatching(table, indicesToDelete) ==
  deleteSpliced(table, indicesToDelete,
    removeFromIndicesFrom(table.indices, table.rows, indicesToDelete, 1),
    spliceFrom(table.rows, indicesToDelete, 1))

deleteRows(table, where) ==
  deleteMatching(table, matchingIndicesFrom(table.rows, where, 1))

\* clone(): an independent copy of schema, rows, indexes and counter.
clone(table) ==
  [schema |-> table.schema,
   rows |-> table.rows,
   indices |-> table.indices,
   autoIncrementCounter |-> table.autoIncrementCounter]

\* updateSchemaAndRows(schema, rows): schema and rows are replaced, the
\* indexes are created for the new schema's primary-key and unique columns
\* and rebuilt from the new rows, and the counter is kept.
updateSchemaAndRows(table, schema, rows) ==
  [schema |-> schema,
   rows |-> rows,
   indices |-> rebuildAllIndices(initializeIndices(schema), rows),
   autoIncrementCounter |-> table.autoIncrementCounter]

(***************************************************************************)
(* Query results (types/query.ts), without executionTime.  An executor     *)
(* yields [tables, result, assigned]: the catalog it leaves, its result    *)
(* and the set of values it took from an auto-increment counter.           *)
(***************************************************************************)
ErrorResult(errorType, message, violation, column) ==
  [success |-> FALSE, type |-> "ERROR",
   error |-> [type |-> errorType, message |-> message,
              violation |-> violation, column |-> column]]

Outcome(tables, result) ==
  [tables |-> tables, result |-> result, assigned |-> {}]

(***************************************************************************)
(* CreateTableExecutor.execute.  A statement column is [name, dataType,    *)
(* constraints], constraints a set of "PRIMARY KEY", "AUTO_INCREMENT",     *)
(* "UNIQUE", "NOT NULL".                                                   *)
(***************************************************************************)
RECURSIVE buildSchemaFrom(_, _, _, _, _)
buildSchemaFrom(statement, i, columns, primaryKey, uniqueColumns) ==
  IF i > Len(statement.columns)
  THEN [error |-> "NONE",
        schema |-> [name |-> statement.tableName, columns |-> columns,
                    primaryKey |-> primaryKey,
                    uniqueColumns |-> uniqueColumns]]
  ELSE LET col == statement.columns[i]
           isPrimaryKey == "PRIMARY KEY" \in col.constraints
           isUnique == "UNIQUE" \in col.constraints
           isNotNull == "NOT NULL" \in col.constraints
           isAutoIncrement == "AUTO_INCREMENT" \in col.constraints
       IN  IF isAutoIncrement /\ ~isPrimaryKey
           THEN [error |-> "AUTO_INCREMENT can only be used with PRIMARY KEY",
                 schema |-> None]
           ELSE IF isPrimaryKey /\ primaryKey # NoPrimaryKey
           THEN [error |-> "Multiple primary keys defined", schema |-> None]
           ELSE buildSchemaFrom(statement, i + 1,
                  Append(columns,
                         [name |-> col.name, type |-> col.dataType,
                          primaryKey |-> isPrimaryKey,
                          autoIncrement |-> isAutoIncrement,
                          unique |-> isUnique \/ isPrimaryKey,
                          notNull |-> isNotNull \/ isPrimaryKey,
                          defaultValue |-> NULL]),
                  IF isPrimaryKey THEN col.name ELSE primaryKey,
                  IF isUnique \/ isPrimaryKey
                  THEN Append(uniqueColumns, col.name)
                  ELSE uniqueColumns)

\* The table is created from the schema the columns loop built.
createBuilt(statement, tables, built) ==
  IF built.error # "NONE"
  THEN Outcome(tables, ErrorResult("SYNTAX_ERROR", built.error, "NONE", ""))
  ELSE Outcome(MapSet(tables, statement.tableName,
                      NewTableStorage(built.schema)),
               [success |-> TRUE, type |-> "CREATE_TABLE",
                tableName |-> statement.tableName])

\* CreateTableExecutor.execute registering the new table before it reports
\* that the name is taken.
CreateTableExecute_MutantRegisters(statement, tables) ==
  IF statement.tableName \in DOMAIN tables
  THEN IF statement.ifNotExists
       THEN Outcome(tables, [success |-> TRUE, type |-> "CREATE_TABLE",
                             tableName |-> statement.tableName])
       ELSE Outcome(createBuilt(statement, tables,
                      buildSchemaFrom(statement, 1, <<>>, NoPrimaryKey, <<>>)).tables,
                    ErrorResult("TABLE_ALREADY_EXISTS", "", "NONE", ""))
  ELSE createBuilt(statement, tables,
         buildSchemaFrom(statement, 1, <<>>, NoPrimaryKey, <<>>))

\* CreateTableExecutor.execute building the table anew when IF NOT EXISTS
\* meets an existing name.
CreateTableExecute_MutantReplaces(statement, tables) ==
  IF statement.tableName \in DOMAIN tables /\ ~statement.ifNotExists
  THEN Outcome(tables, ErrorResult("TABLE_ALREADY_EXISTS", "", "NONE", ""))
  ELSE createBuilt(statement, tables,
         buildSchemaFrom(statement, 1, <<>>, NoPrimaryKey, <<>>))

CreateTableExecute(statement, tables) ==
  IF statement.tableName \in DOMAIN tables
  THEN IF statement.ifNotExists
       THEN Outcome(tables, [success |-> TRUE, type |-> "CREATE_TABLE",
                             tableName |-> statement.tableName])
       ELSE Outcome(tables, ErrorResult("TABLE_ALREADY_EXISTS", "", "NONE", ""))
  ELSE createBuilt(statement, tables,
         buildSchemaFrom(statement, 1, <<>>, NoPrimaryKey, <<>>))

(***************************************************************************)
(* DropTableExecutor.execute                                               *)
(***************************************************************************)
\* DropTableExecutor.execute reporting the drop without removing the table.
DropTableExecute_Mutant(statement, tables) ==
  IF statement.tableName \notin DOMAIN tables
  THEN IF statement.ifExists
       THEN Outcome(tables, [success |-> TRUE, type |-> "DROP_TABLE",
                             tableName |-> statement.tableName])
       ELSE Outcome(tables, ErrorResult("TABLE_NOT_FOUND", "", "NONE", ""))
  ELSE Outcome(tables, [success |-> TRUE, type |-> "DROP_TABLE",
                        tableName |-> statement.tableName])

DropTableExecute(statement, tables) ==
  IF statement.tableName \notin DOMAIN tables
  THEN IF statement.ifExists
       THEN Outcome(tables, [success |-> TRUE, type |-> "DROP_TABLE",
                             tableName |-> statement.tableName])
       ELSE Outcome(tables, ErrorResult("TABLE_NOT_FOUND", "", "NONE", ""))
  ELSE Outcome(MapDelete(tables, statement.tableName),
               [success |-> TRUE, type |-> "DROP_TABLE",
                tableName |-> statement.tableName])

(***************************************************************************)
(* AlterTableExecutor.execute.  The new schema is the old one with its     *)
(* column list changed: primaryKey and uniqueColumns are carried over.     *)
(***************************************************************************)
\* schema.columns.findIndex((col) => col.name === name), 1-based; 0 for -1.
FindColumnIndex(schema, name) ==
  LET hits == {i \in DOMAIN schema.columns : schema.columns[i].name = name}
  IN  IF hits = {} THEN 0 ELSE CHOOSE i \in hits : \A j \in hits : i <= j

\* The column definition ADD_COLUMN and MODIFY_COLUMN build.
AlterColumn(column) ==
  [name |-> column.name, type |-> column.dataType,
   primaryKey |-> "PRIMARY KEY" \in column.constraints,
   autoIncrement |-> "AUTO_INCREMENT" \in column.constraints,
   unique |-> "UNIQUE" \in column.constraints,
   notNull |-> "NOT NULL" \in column.constraints,
   defaultValue |-> NULL]

RemoveAt(seq, i) ==
  [j \in 1..(Len(seq) - 1) |-> IF j < i THEN seq[j] ELSE seq[j + 1]]

AlterOk == [success |-> TRUE, type |-> "UPDATE", rowsAffected |-> 0]

AlterTableExecute(statement, tables) ==
  IF statement.tableName \notin DOMAIN tables
  THEN Outcome(tables, ErrorResult("TABLE_NOT_FOUND", "", "NONE", ""))
  ELSE
  LET table == tables[statement.tableName]
      schema == table.schema
      rows == table.rows
      action == statement.action
      Done(newSchema, newRows) ==
        Outcome([tables EXCEPT ![statement.tableName] =
                   updateSchemaAndRows(table, newSchema, newRows)],
                AlterOk)
  IN  CASE action.kind = "ADD_COLUMN" ->
             IF action.column.name \in ColumnNames(schema)
             THEN Outcome(tables, ErrorResult("COLUMN_NOT_FOUND",
                            "already exists", "NONE", action.column.name))
             ELSE Done([schema EXCEPT !.columns =
                          Append(@, AlterColumn(action.column))],
                       [i \in DOMAIN rows |->
                          MapSet(rows[i], action.column.name, NULL)])
        [] action.kind = "DROP_COLUMN" ->
             LET colIdx == FindColumnIndex(schema, action.columnName)
             IN  IF colIdx = 0
                 THEN Outcome(tables, ErrorResult("COLUMN_NOT_FOUND",
                                "does not exist", "NONE", action.columnName))
                 ELSE Done([schema EXCEPT !.columns = RemoveAt(@, colIdx)],
                           [i \in DOMAIN rows |->
                              MapDelete(rows[i], action.columnName)])
        [] action.kind = "RENAME_COLUMN" ->
             LET colIdx == FindColumnIndex(schema, action.oldName)
             IN  IF colIdx = 0
                 THEN Outcome(tables, ErrorResult("COLUMN_NOT_FOUND",
                                "does not exist", "NONE", action.oldName))
                 ELSE IF action.newName \in ColumnNames(schema)
                 THEN Outcome(tables, ErrorResult("COLUMN_NOT_FOUND",
                                "already exists", "NONE", action.newName))
                 ELSE Done([schema EXCEPT !.columns[colIdx].name = action.newName],
                           [i \in DOMAIN rows |->
                              MapDelete(MapSet(rows[i], action.newName,
                                               rows[i][action.oldName]),
                                        action.oldName)])
        [] action.kind = "MODIFY_COLUMN" ->
             LET colIdx == FindColumnIndex(schema, action.column.name)
             IN  IF colIdx = 0
                 THEN Outcome(tables, ErrorResult("COLUMN_NOT_FOUND",
                                "does not exist", "NONE", action.column.name))
                 ELSE Done([schema EXCEPT !.columns[colIdx] =
                              AlterColumn(action.column)],
                           rows)
        [] OTHER ->
             Outcome(tables, ErrorResult("EXECUTION_ERROR",
                       "ALTER TABLE action not implemented", "NONE", ""))

(***************************************************************************)
(* InsertExecutor.execute.  statement is [tableName, columns, values]:     *)
(* columns is None or [names |-> a sequence of names], values a sequence   *)
(* of value rows.                                                          *)
(***************************************************************************)
\* rowData: the named columns' values, a later duplicate name winning.
RECURSIVE rowDataFrom(_, _, _, _)
rowDataFrom(columnNames, valueRow, i, rowData) ==
  IF i > Len(columnNames) THEN rowData
  ELSE rowDataFrom(columnNames, valueRow, i + 1,
                   MapSet(rowData, columnNames[i], valueRow[i]))

\* The loop over the value rows, stopping at the first failure.
RECURSIVE insertValuesFrom(_, _, _, _, _, _, _)
\* The loop body after table.insertRow has returned insertResult.
insertValuesInserted(statement, columnNames, v, rowsAffected, lastInsertId, assigned, insertResult) ==
  LET assigned2 == IF insertResult.assigned = NULL THEN assigned
                   ELSE assigned \cup {insertResult.assigned.n}
  IN  IF ~insertResult.success
      THEN [table |-> insertResult.table, assigned |-> assigned2,
            result |-> ErrorResult("CONSTRAINT_VIOLATION", "",
                         insertResult.error, insertResult.column)]
      ELSE insertValuesFrom(statement, columnNames, insertResult.table,
             v + 1, rowsAffected + 1,
             IF insertResult.lastInsertId # NULL
             THEN insertResult.lastInsertId ELSE lastInsertId,
             assigned2)

insertValuesFrom(statement, columnNames, table, v, rowsAffected, lastInsertId, assigned) ==
  IF v > Len(statement.values)
  THEN [table |-> table, assigned |-> assigned,
        result |-> [success |-> TRUE, type |-> "INSERT",
                    rowsAffected |-> rowsAffected,
                    lastInsertId |-> lastInsertId]]
  ELSE IF Len(statement.values[v]) # Len(columnNames)
  THEN [table |-> table, assigned |-> assigned,
        result |-> ErrorResult("EXECUTION_ERROR",
                     "Column count doesn't match value count", "NONE", "")]
  ELSE insertValuesInserted(statement, columnNames, v, rowsAffected,
         lastInsertId, assigned,
         insertRow(table, rowDataFrom(columnNames, statement.values[v], 1, <<>>)))

\* An INSERT that keeps none of its rows when one of them fails.
insertDone_Mutant(statement, tables, done) ==
  [tables |-> IF done.result.success
              THEN [tables EXCEPT ![statement.tableName] = done.table]
              ELSE tables,
   result |-> done.result,
   assigned |-> done.assigned]

\* The catalog and the result the value rows loop leaves.
insertDone(statement, tables, done) ==
  [tables |-> [tables EXCEPT ![statement.tableName] = done.table],
   result |-> done.result,
   assigned |-> done.assigned]

InsertExecute(statement, tables) ==
  IF statement.tableName \notin DOMAIN tables
  THEN Outcome(tables, ErrorResult("TABLE_NOT_FOUND", "", "NONE", ""))
  ELSE
  LET schema == tables[statement.tableName].schema
      columnNames == IF statement.columns # None THEN statement.columns.names
                     ELSE [i \in DOMAIN schema.columns |-> schema.columns[i].name]
      unknown == {i \in DOMAIN columnNames :
                    columnNames[i] \notin ColumnNames(schema)}
  IN  IF unknown # {}
      THEN Outcome(tables,
             ErrorResult("COLUMN_NOT_FOUND", "", "NONE",
               columnNames[CHOOSE i \in unknown : \A j \in unknown : i <= j]))
      ELSE insertDone(statement, tables,
             insertValuesFrom(statement, columnNames,
                              tables[statement.tableName], 1, 0, NULL, {}))

(***************************************************************************)
(* UpdateExecutor.execute: the table is looked up, the SET list becomes    *)
(* the updates, the WHERE clause the filter (absent: every row), and a     *)
(* constraint violation of updateRows is returned as the error.            *)
(***************************************************************************)
updateDone(statement, tables, updated) ==
  IF ~updated.success
  THEN Outcome([tables EXCEPT ![statement.tableName] = updated.table],
               ErrorResult("CONSTRAINT_VIOLATION", "", updated.error,
                           updated.column))
  ELSE Outcome([tables EXCEPT ![statement.tableName] = updated.table],
               [success |-> TRUE, type |-> "UPDATE",
                rowsAffected |-> updated.rowsAffected])

UpdateExecute(statement, tables) ==
  IF statement.tableName \notin DOMAIN tables
  THEN Outcome(tables, ErrorResult("TABLE_NOT_FOUND", "", "NONE", ""))
  ELSE updateDone(statement, tables,
         updateRows(tables[statement.tableName], statement.set,
                    statement.where))

(***************************************************************************)
(* DeleteExecutor.execute                                                  *)
(***************************************************************************)
deleteDone(statement, tables, deleted) ==
  Outcome([tables EXCEPT ![statement.from] = deleted.table],
          [success |-> TRUE, type |-> "DELETE",
           rowsAffected |-> deleted.rowsAffected])

DeleteExecute(statement, tables) ==
  IF statement.from \notin DOMAIN tables
  THEN Outcome(tables, ErrorResult("TABLE_NOT_FOUND", "", "NONE", ""))
  ELSE deleteDone(statement, tables,
         deleteRows(tables[statement.from], statement.where))

(***************************************************************************)
(* SelectExecutor.execute for statements without ORDER BY:                 *)
(* [columns, from, where, join, limit], columns Star or [names |-> a       *)
(* sequence of names], join None or a JoinClause, limit NULL or a number.  *)
(***************************************************************************)
\* SelectExecutor.compareValues
compareValues(left, operator, right) ==
  IF left = NULL \/ right = NULL
  THEN IF operator = "=" THEN left = right
       ELSE IF operator = "!=" THEN left # right
       ELSE FALSE
  ELSE CASE operator = "=" -> normalize(left) = normalize(right)
         [] operator = "!=" -> normalize(left) # normalize(right)
         [] operator = ">" -> numericCompare(left, right) > 0
         [] operator = "<" -> numericCompare(left, right) < 0
         [] operator = ">=" -> numericCompare(left, right) >= 0
         [] operator = "<=" -> numericCompare(left, right) <= 0
         [] operator = "LIKE" -> likeCompare(left, right)
         [] OTHER -> FALSE

\* SelectExecutor.evaluateCondition
RECURSIVE selectEvaluateCondition(_, _)
selectEvaluateCondition(row, condition) ==
  IF condition.type = "LOGICAL"
  THEN LET leftResult == selectEvaluateCondition(row, condition.left)
           rightResult == selectEvaluateCondition(row, condition.right)
       IN  IF condition.operator = "AND"
           THEN leftResult /\ rightResult
           ELSE leftResult \/ rightResult
  ELSE compareValues(RowValue(row, condition.column), condition.operator,
                     condition.value)

RECURSIVE filterRowsFrom(_, _, _)
filterRowsFrom(rows, where, i) ==
  IF i > Len(rows) THEN <<>>
  ELSE (IF \A c \in DOMAIN where.conditions :
              selectEvaluateCondition(rows[i], where.conditions[c])
        THEN <<rows[i]>> ELSE <<>>)
       \o filterRowsFrom(rows, where, i + 1)

filterRows(rows, where) == filterRowsFrom(rows, where, 1)

projectColumns(rows, columns) ==
  [i \in DOMAIN rows |->
     [column \in Range(columns) |-> RowValue(rows[i], column)]]

\* rows.slice(0, limit) for limit >= 0
Slice(rows, limit) ==
  SubSeq(rows, 1, IF limit < Len(rows) THEN limit ELSE Len(rows))

\* The result of the rows left after LIMIT.
selectResult(tables, rows) ==
  Outcome(tables, [success |-> TRUE, type |-> "SELECT",
                   rows |-> rows, rowCount |-> Len(rows)])

\* LIMIT applied to the projected rows.
selectLimited(statement, tables, rows) ==
  selectResult(tables,
    IF statement.limit # NULL THEN Slice(rows, statement.limit.n) ELSE rows)

\* The projection applied to the filtered rows.
selectProjected(statement, tables, rows) ==
  selectLimited(statement, tables,
    IF statement.columns # Star
    THEN projectColumns(rows, statement.columns.names) ELSE rows)

\* execute projecting * to the unique columns of the schema.
SelectExecute_Mutant(statement, tables) ==
  IF statement.from \notin DOMAIN tables
  THEN Outcome(tables, ErrorResult("TABLE_NOT_FOUND", "", "NONE", ""))
  ELSE selectLimited(statement, tables,
         projectColumns(
           IF statement.where # None
           THEN filterRows(tables[statement.from].rows, statement.where)
           ELSE tables[statement.from].rows,
           IF statement.columns # Star THEN statement.columns.names
           ELSE tables[statement.from].schema.uniqueColumns))

\* The value of row[column] where undefined is a value of its own.
Undefined == [k |-> "undefined"]

Field(row, column) == IF column \in DOMAIN row THEN row[column] ELSE Undefined

\* The template literal `${tableName}.${key}`.
Prefixed(tableName, key) == tableName \o "." \o key

\* mergeRows: the left entries, then the right entries, which replace a left
\* entry of the same key.
mergeRows(left, right, leftTableName, rightTableName) ==
  LET leftKeys == {Prefixed(leftTableName, key) : key \in DOMAIN left}
      rightKeys == {Prefixed(rightTableName, key) : key \in DOMAIN right}
  IN  [k \in leftKeys \cup rightKeys |->
         IF k \in rightKeys
         THEN right[CHOOSE key \in DOMAIN right : Prefixed(rightTableName, key) = k]
         ELSE left[CHOOSE key \in DOMAIN left : Prefixed(leftTableName, key) = k]]

\* nullRow(rows[0]): the empty row when there is no first row.
nullRow(rows) ==
  IF rows = <<>> THEN <<>> ELSE [key \in DOMAIN rows[1] |-> NULL]

\* The inner loop comparing the join keys without regard to case.
RECURSIVE matchesRight_Mutant(_, _, _, _, _, _)
matchesRight_Mutant(leftRow, rightRows, on, leftTableName, rightTableName, j) ==
  IF j > Len(rightRows) THEN <<>>
  ELSE (IF normalize(Field(leftRow, on.leftColumn))
             = normalize(Field(rightRows[j], on.rightColumn))
        THEN <<mergeRows(leftRow, rightRows[j], leftTableName, rightTableName)>>
        ELSE <<>>)
       \o matchesRight_Mutant(leftRow, rightRows, on, leftTableName,
                              rightTableName, j + 1)

\* The inner loop over the right rows for one left row: the merged rows of
\* the right rows from position j that match it.
RECURSIVE matchesRight(_, _, _, _, _, _)
matchesRight(leftRow, rightRows, on, leftTableName, rightTableName, j) ==
  IF j > Len(rightRows) THEN <<>>
  ELSE (IF Field(leftRow, on.leftColumn) = Field(rightRows[j], on.rightColumn)
        THEN <<mergeRows(leftRow, rightRows[j], leftTableName, rightTableName)>>
        ELSE <<>>)
       \o matchesRight(leftRow, rightRows, on, leftTableName, rightTableName, j + 1)

\* The inner loop over the left rows for one right row.
RECURSIVE matchesLeft(_, _, _, _, _, _)
matchesLeft(leftRows, rightRow, on, leftTableName, rightTableName, i) ==
  IF i > Len(leftRows) THEN <<>>
  ELSE (IF Field(leftRows[i], on.leftColumn) = Field(rightRow, on.rightColumn)
        THEN <<mergeRows(leftRows[i], rightRow, leftTableName, rightTableName)>>
        ELSE <<>>)
       \o matchesLeft(leftRows, rightRow, on, leftTableName, rightTableName, i + 1)

\* A LEFT JOIN that drops the left rows without a match.
leftJoined_Mutant(leftRow, rightRows, leftTableName, rightTableName, matched) ==
  matched

\* The rows one left row adds to the result of a LEFT JOIN.
leftJoined(leftRow, rightRows, leftTableName, rightTableName, matched) ==
  IF matched # <<>> THEN matched
  ELSE <<mergeRows(leftRow, nullRow(rightRows), leftTableName, rightTableName)>>

\* The rows one right row adds to the result of a RIGHT JOIN.
rightJoined(leftRows, rightRow, leftTableName, rightTableName, matched) ==
  IF matched # <<>> THEN matched
  ELSE <<mergeRows(nullRow(leftRows), rightRow, leftTableName, rightTableName)>>

\* executeJoin, outer loop from position i: over the left rows for INNER
\* and LEFT, over the right rows for RIGHT.
RECURSIVE executeJoinFrom(_, _, _, _, _, _, _)
executeJoinFrom(leftRows, rightRows, joinType, on, leftTableName, rightTableName, i) ==
  CASE joinType = "INNER" ->
         IF i > Len(leftRows) THEN <<>>
         ELSE matchesRight(leftRows[i], rightRows, on, leftTableName,
                           rightTableName, 1)
              \o executeJoinFrom(leftRows, rightRows, joinType, on,
                                 leftTableName, rightTableName, i + 1)
    [] joinType = "LEFT" ->
         IF i > Len(leftRows) THEN <<>>
         ELSE leftJoined(leftRows[i], rightRows, leftTableName, rightTableName,
                matchesRight(leftRows[i], rightRows, on, leftTableName,
                             rightTableName, 1))
              \o executeJoinFrom(leftRows, rightRows, joinType, on,
                                 leftTableName, rightTableName, i + 1)
    [] joinType = "RIGHT" ->
         IF i > Len(rightRows) THEN <<>>
         ELSE rightJoined(leftRows, rightRows[i], leftTableName, rightTableName,
                matchesLeft(leftRows, rightRows[i], on, leftTableName,
                            rightTableName, 1))
              \o executeJoinFrom(leftRows, rightRows, joinType, on,
                                 leftTableName, rightTableName, i + 1)
    [] OTHER -> <<>>

executeJoin(leftRows, rightRows, joinType, on, leftTableName, rightTableName) ==
  executeJoinFrom(leftRows, rightRows, joinType, on, leftTableName,
                  rightTableName, 1)

\* The JOIN applied to the filtered rows of the main table.
selectJoined(statement, tables, rows) ==
  selectProjected(statement, tables,
    IF statement.join # None
    THEN executeJoin(rows, tables[statement.join.table].rows,
                     statement.join.type, statement.join.on, statement.from,
                     statement.join.table)
    ELSE rows)

SelectExecute(statement, tables) ==
  IF statement.from \notin DOMAIN tables
  THEN Outcome(tables, ErrorResult("TABLE_NOT_FOUND", "", "NONE", ""))
  ELSE IF statement.join # None /\ statement.join.table \notin DOMAIN tables
  THEN Outcome(tables, ErrorResult("TABLE_NOT_FOUND", "", "NONE", ""))
  ELSE selectJoined(statement, tables,
         IF statement.where # None
         THEN filterRows(tables[statement.from].rows, statement.where)
         ELSE tables[statement.from].rows)

(***************************************************************************)
(* MetaExecutor.executeShowTables                                          *)
(***************************************************************************)
\* Array.prototype.sort() on the table names of the model: the names in
\* code-unit order.
NameRank(name) ==
  CASE name = "l" -> 1
    [] name = "r" -> 2
    [] name = "t" -> 3
    [] name = "u" -> 4
    [] name = "v" -> 5
    [] name = "w" -> 6
    [] OTHER -> 7

RECURSIVE SortedNames(_)
SortedNames(names) ==
  IF names = {} THEN <<>>
  ELSE LET first == CHOOSE n \in names : \A m \in names : NameRank(n) <= NameRank(m)
       IN  <<first>> \o SortedNames(names \ {first})

\* MetaExecutor.executeShowTables
ShowTablesExecute(statement, tables) ==
  Outcome(tables, [success |-> TRUE, type |-> "SHOW_TABLES",
                   tables |-> SortedNames(DOMAIN tables)])

\* MetaExecutor.executeDescribe
DescribeExecute(statement, tables) ==
  IF statement.tableName \notin DOMAIN tables
  THEN Outcome(tables, ErrorResult("TABLE_NOT_FOUND", "", "NONE", ""))
  ELSE Outcome(tables, [success |-> TRUE, type |-> "DESCRIBE",
                        schema |-> tables[statement.tableName].schema])

(***************************************************************************)
(* SQLParser.parse on a token sequence, for the statements SHOW TABLES and *)
(* DESCRIBE.  A token is [type, value]; the result is a statement, or the  *)
(* syntax error thrown, as [type |-> "THROWN", message].                   *)
(***************************************************************************)
Token(type, value) == [type |-> type, value |-> value]

\* BaseParser: the token at a position, the EOF token past the end.
TokenAt(tokens, position) ==
  IF position <= Len(tokens) THEN tokens[position] ELSE Token("EOF", "")

createSyntaxError(message) == [type |-> "THROWN", message |-> message]

parseShowTables(tokens) ==
  IF TokenAt(tokens, 2).type # "TABLES"
  THEN createSyntaxError("Expected TABLES")
  ELSE [type |-> "SHOW_TABLES"]

parseDescribe(tokens) ==
  IF TokenAt(tokens, 2).type # "IDENTIFIER"
  THEN createSyntaxError("Expected identifier")
  ELSE [type |-> "DESCRIBE", tableName |-> TokenAt(tokens, 2).value]

parse(tokens) ==
  IF TokenAt(tokens, 1).type = "SHOW" THEN parseShowTables(tokens)
  ELSE IF TokenAt(tokens, 1).type = "DESCRIBE" THEN parseDescribe(tokens)
  ELSE createSyntaxError("Unknown SQL statement")

(***************************************************************************)
(* The statements offered to the session.                                  *)
(***************************************************************************)
Column(name, dataType, constraints) ==
  [name |-> name, dataType |-> dataType, constraints |-> constraints]

Condition(column, operator, value) ==
  [type |-> "CONDITION", column |-> column, operator |-> operator,
   value |-> value]

Where(condition) == [conditions |-> <<condition>>]

\* id INTEGER PRIMARY KEY AUTO_INCREMENT, e TEXT UNIQUE NOT NULL
KeyedColumns ==
  <<Column("id", "INTEGER", {"PRIMARY KEY", "AUTO_INCREMENT"}),
    Column("e", "TEXT", {"UNIQUE", "NOT NULL"})>>

\* e TEXT UNIQUE, n INTEGER
PlainColumns ==
  <<Column("e", "TEXT", {"UNIQUE"}), Column("n", "INTEGER", {})>>

CreateStatement(columns, ifNotExists) ==
  [type |-> "CREATE_TABLE", tableName |-> "t", columns |-> columns,
   ifNotExists |-> ifNotExists]

DropStatement(ifExists) ==
  [type |-> "DROP_TABLE", tableName |-> "t", ifExists |-> ifExists]

AlterStatement(action) ==
  [type |-> "ALTER_TABLE", tableName |-> "t", action |-> action]

InsertStatement(columns, values) ==
  [type |-> "INSERT", tableName |-> "t", columns |-> columns,
   values |-> values]

UpdateStatement(set, where) ==
  [type |-> "UPDATE", tableName |-> "t", set |-> set, where |-> where]

DeleteStatement(where) == [type |-> "DELETE", from |-> "t", where |-> where]

SelectStatement(columns, where, limit) ==
  [type |-> "SELECT", columns |-> columns, from |-> "t", where |-> where,
   join |-> None, limit |-> limit]

JoinClause(type, table, leftColumn, rightColumn) ==
  [type |-> type, table |-> table,
   on |-> [leftColumn |-> leftColumn, rightColumn |-> rightColumn]]

Set1(column, value) == <<[column |-> column, value |-> value]>>

WhereE(value) == Where(Condition("e", "=", value))

\* AUTO_INCREMENT without PRIMARY KEY, and two primary keys.
RejectedCreates ==
  {CreateStatement(<<Column("id", "INTEGER", {"AUTO_INCREMENT"})>>, TRUE),
   CreateStatement(<<Column("id", "INTEGER", {"PRIMARY KEY"}),
                     Column("e", "TEXT", {"PRIMARY KEY"})>>, FALSE)}

AddId == [kind |-> "ADD_COLUMN",
          column |-> Column("id", "INTEGER", {"PRIMARY KEY"})]
DropN == [kind |-> "DROP_COLUMN", columnName |-> "n"]
RenameN == [kind |-> "RENAME_COLUMN", oldName |-> "n", newName |-> "m"]
ModifyId == [kind |-> "MODIFY_COLUMN",
             column |-> Column("id", "INTEGER",
                               {"PRIMARY KEY", "AUTO_INCREMENT"})]

\* The statements of the specification SpecDML.
DMLCreates ==
  {CreateStatement(KeyedColumns, FALSE), CreateStatement(PlainColumns, FALSE)}
  \cup RejectedCreates

DMLInserts ==
  {InsertStatement([names |-> <<"e">>], <<<<v>>>>) :
     v \in {NULL, Str("a"), Str("A"), Str("b")}}
  \cup {InsertStatement(None, <<<<v, w>>>>) :
          v \in {Str("a"), Str("b")}, w \in {Num(1), Str("a")}}
  \cup {InsertStatement([names |-> <<"e">>], <<<<Str("a")>>, <<Str("b")>>>>)}

DMLWheres == {None, WhereE(Str("a")), Where(Condition("id", "=", Num(1)))}

DMLUpdates ==
  {UpdateStatement(u, w) :
     u \in {Set1("e", NULL), Set1("e", Str("A")), Set1("e", Str("b")),
            Set1("n", Num(1)), Set1("zz", Num(1)),
            Set1("n", Num(1)) \o Set1("e", Str("b"))},
     w \in DMLWheres}

DMLDeletes == {DeleteStatement(w) : w \in DMLWheres}

DMLSelects ==
  {SelectStatement(Star, None, NULL),
   SelectStatement(Star, WhereE(Str("a")), NULL),
   SelectStatement([names |-> <<"e">>], None, Num(1))}

\* The statements of the specification SpecStorage.
StorageCreates == DMLCreates

StorageDrops == {DropStatement(FALSE), DropStatement(TRUE)}

StorageAlters == {AlterStatement(a) : a \in {AddId, DropN, RenameN, ModifyId}}

StorageInserts ==
  {InsertStatement([names |-> <<"e">>], <<<<v>>>>) :
     v \in {NULL, Str("a"), Str("b")}}
  \cup {InsertStatement(None, <<<<Str("b"), Str("a")>>>>)}

StorageUpdates ==
  {UpdateStatement(Set1("e", Str("b")), None),
   UpdateStatement(Set1("e", Str("b")), WhereE(Str("a"))),
   UpdateStatement(Set1("n", Num(1)), WhereE(Str("a"))),
   UpdateStatement(Set1("zz", Num(1)), None)}

StorageDeletes == {DeleteStatement(None), DeleteStatement(WhereE(Str("a")))}

StorageSelects == DMLSelects

\* The statements of the specification SpecSchema.
\* e TEXT, e INTEGER: a column list that repeats a name.
RepeatedColumns ==
  <<Column("e", "TEXT", {}), Column("e", "INTEGER", {})>>

\* id TEXT PRIMARY KEY AUTO_INCREMENT, e TEXT
TextKeyColumns ==
  <<Column("id", "TEXT", {"PRIMARY KEY", "AUTO_INCREMENT"}),
    Column("e", "TEXT", {})>>

AddM == [kind |-> "ADD_COLUMN",
         column |-> Column("m", "INTEGER", {"NOT NULL"})]
AddK == [kind |-> "ADD_COLUMN",
         column |-> Column("k", "INTEGER", {"AUTO_INCREMENT"})]
AddE == [kind |-> "ADD_COLUMN", column |-> Column("e", "TEXT", {})]
DropE == [kind |-> "DROP_COLUMN", columnName |-> "e"]
DropZ == [kind |-> "DROP_COLUMN", columnName |-> "zz"]
RenameNToE == [kind |-> "RENAME_COLUMN", oldName |-> "n", newName |-> "e"]
ModifyE == [kind |-> "MODIFY_COLUMN",
            column |-> Column("e", "TEXT", {"NOT NULL"})]
ModifyN == [kind |-> "MODIFY_COLUMN",
            column |-> Column("n", "INTEGER", {"PRIMARY KEY"})]

SchemaCreates ==
  {CreateStatement(PlainColumns, FALSE), CreateStatement(RepeatedColumns, FALSE),
   CreateStatement(TextKeyColumns, FALSE)}
  \cup RejectedCreates

SchemaDrops == {DropStatement(FALSE), DropStatement(TRUE)}

SchemaAlters ==
  {AlterStatement(a) :
     a \in {AddId, AddM, AddK, AddE, DropE, DropZ, RenameN, RenameNToE,
            ModifyE, ModifyN}}

SchemaInserts ==
  {InsertStatement([names |-> <<"e">>], <<<<v>>>>) : v \in {NULL, Str("a")}}

SchemaUpdates == {UpdateStatement(Set1("e", NULL), None)}

SchemaDeletes == {DeleteStatement(None)}

\* The statements of the specification SpecCatalog, on the tables t and u.
Named(statement, name) == [statement EXCEPT !.tableName = name]

CatalogCreates ==
  {CreateStatement(PlainColumns, FALSE), CreateStatement(PlainColumns, TRUE),
   CreateStatement(KeyedColumns, TRUE),
   Named(CreateStatement(PlainColumns, FALSE), "u"),
   Named(CreateStatement(KeyedColumns, TRUE), "u")}
  \cup RejectedCreates

CatalogDrops ==
  {Named(DropStatement(ifExists), name) :
     ifExists \in BOOLEAN, name \in {"t", "u"}}

CatalogInserts ==
  {InsertStatement([names |-> <<"e">>], <<<<v>>>>) : v \in {Str("a"), Str("b")}}

(***************************************************************************)
(* SQLParser.parseWhere and parseCondition.  The clause enters as the      *)
(* sequence of its simple conditions and the sequence of the AND/OR        *)
(* keywords between them, in the order of the text.                        *)
(***************************************************************************)
\* parseCondition nesting to the right: c1 op1 (c2 op2 (c3 ...)).
RECURSIVE parseCondition_Mutant(_, _)
parseCondition_Mutant(simple, operators) ==
  IF operators = <<>> THEN simple[1]
  ELSE [type |-> "LOGICAL", operator |-> operators[1], left |-> simple[1],
        right |-> parseCondition_Mutant(Tail(simple), Tail(operators))]

\* The while loop of parseCondition, `left` holding the tree built so far.
RECURSIVE parseConditionFrom(_, _, _, _)
parseConditionFrom(simple, operators, i, left) ==
  IF i > Len(operators) THEN left
  ELSE parseConditionFrom(simple, operators, i + 1,
         [type |-> "LOGICAL", operator |-> operators[i], left |-> left,
          right |-> simple[i + 1]])

parseCondition(simple, operators) ==
  parseConditionFrom(simple, operators, 1, simple[1])

parseWhere(simple, operators) ==
  [conditions |-> <<parseCondition(simple, operators)>>]

\* The statements of the specifications SpecWhere, on the table
\* w (a INTEGER, b INTEGER, c INTEGER), and SpecCompare, on the table
\* v (x TEXT, f BOOLEAN, n INTEGER).
MaxWhereRows == 3

MaxCompareRows == 2

WColumns ==
  <<Column("a", "INTEGER", {}), Column("b", "INTEGER", {}),
    Column("c", "INTEGER", {})>>

VColumns ==
  <<Column("x", "TEXT", {}), Column("f", "BOOLEAN", {}),
    Column("n", "INTEGER", {})>>

\* The value rows INSERT INTO w VALUES (...) and INSERT INTO v VALUES (...)
\* are given.
WData ==
  {[a |-> Num(1), b |-> Num(1), c |-> Num(1)],
   [a |-> Num(1), b |-> Num(0), c |-> Num(1)],
   [a |-> Num(0), b |-> Num(1), c |-> Num(0)],
   [a |-> Num(0), b |-> Num(0), c |-> Num(0)]}

VData ==
  {[x |-> NULL, f |-> NULL, n |-> NULL],
   [x |-> Str("a"), f |-> Bool(TRUE), n |-> Num(1)],
   [x |-> Str("2"), f |-> Bool(FALSE), n |-> Num(3)]}

\* The simple conditions of a clause on w, in the order of the text.
WSimple ==
  {<<Condition("a", "=", Num(1)), Condition("b", "=", Num(1)),
     Condition("c", "=", Num(0))>>,
   <<Condition("c", "=", Num(0)), Condition("a", "=", Num(1)),
     Condition("b", "=", Num(1))>>}

\* WHERE c1 op1 c2 ... on w: one to three conditions.
WOperators ==
  {<<>>} \cup {<<o>> : o \in {"AND", "OR"}}
         \cup {<<o, q>> : o \in {"AND", "OR"}, q \in {"AND", "OR"}}

WClause(simple, operators) ==
  parseWhere(SubSeq(simple, 1, Len(operators) + 1), operators)

WWheres ==
  {WClause(simple, operators) : simple \in WSimple, operators \in WOperators}

ComparisonOperators == {"=", "!=", "<", ">", "<=", ">=", "LIKE"}

\* WHERE column op literal on v.
VWheres ==
  {parseWhere(<<Condition(column, operator, value)>>, <<>>) :
     column \in {"x", "f", "n"}, operator \in ComparisonOperators,
     value \in {NULL, Num(2), Str("a"), Str("%"), Bool(TRUE)}}

From(statement, name) == [statement EXCEPT !.from = name]

WhereSelects ==
  {From(SelectStatement(Star, where, NULL), "w") : where \in WWheres}

WhereDeletes == {From(DeleteStatement(where), "w") : where \in WWheres}

CompareSelects ==
  {From(SelectStatement(Star, where, NULL), "v") : where \in VWheres}

CompareDeletes == {From(DeleteStatement(where), "v") : where \in VWheres}

\* The statements of the specification SpecTypes, on the table
\* v (x TEXT, f BOOLEAN, n INTEGER): literals of the column's type, literals
\* that coerce to it and literals that do not.
TypesInserts ==
  {Named(InsertStatement(None, <<<<x, f, n>>>>), "v") :
     x \in {Str("a"), Num(1)},
     f \in {Str("yes"), Str("a")},
     n \in {Num(1), Str("2"), Str("a")}}

TypesUpdates ==
  {Named(UpdateStatement(Set1(c.column, c.value), where), "v") :
     c \in {[column |-> "x", value |-> Num(1)],
            [column |-> "f", value |-> Str("yes")],
            [column |-> "f", value |-> Str("a")],
            [column |-> "n", value |-> Str("2")],
            [column |-> "n", value |-> Str("a")]},
     where \in {None, Where(Condition("n", "=", Num(1)))}}

\* The statements of the specification SpecJoin, on the tables
\* l (a TEXT, p INTEGER) and r (b TEXT):
\* SELECT * FROM l [INNER | LEFT | RIGHT] JOIN r ON a = b [WHERE p = 1].
MaxJoinRows == 2

LColumns == <<Column("a", "TEXT", {}), Column("p", "INTEGER", {})>>

RColumns == <<Column("b", "TEXT", {})>>

LData ==
  {[a |-> Str("a"), p |-> Num(1)], [a |-> Str("A"), p |-> Num(2)],
   [a |-> NULL, p |-> Num(1)]}

RData == {[b |-> Str("a")], [b |-> Str("A")], [b |-> NULL]}

JoinTypes == {"INNER", "LEFT", "RIGHT"}

JoinWheres == {None, Where(Condition("p", "=", Num(1)))}

JoinStatement(type, table, where) ==
  [SelectStatement(Star, where, NULL) EXCEPT
     !.from = "l", !.join = JoinClause(type, table, "a", "b")]

JoinSelects ==
  {JoinStatement(type, "r", where) : type \in JoinTypes, where \in JoinWheres}
  \cup {JoinStatement("INNER", "zz", None)}

\* The statements of the specification SpecInsert, on the table
\* t (e TEXT UNIQUE, n INTEGER): INSERT INTO t (e) VALUES r1, ..., rn with two
\* or three value rows, each a key or a row of two values.
MaxInsertRows == 4

InsertValueRows ==
  {<<Str("a")>>, <<Str("b")>>, <<Str("c")>>, <<Str("a"), Str("a")>>}

ManyInserts ==
  {InsertStatement([names |-> <<"e">>], values) :
     values \in [1..2 -> InsertValueRows] \cup [1..3 -> InsertValueRows]}

\* The statements of the specification SpecUpdate, on the table
\* t (e TEXT UNIQUE NOT NULL, n INTEGER): UPDATEs with one or two SET entries,
\* valid ones and ones with an unknown column, a NULL for e or a value that
\* is no INTEGER for n.
MaxUpdateRows == 2

UColumns ==
  <<Column("e", "TEXT", {"UNIQUE", "NOT NULL"}), Column("n", "INTEGER", {})>>

UData ==
  {[e |-> Str("a"), n |-> Num(1)], [e |-> Str("b"), n |-> Num(1)],
   [e |-> Str("B"), n |-> NULL]}

USets ==
  {Set1("e", Str("a")), Set1("e", Str("A")), Set1("e", Str("b")),
   Set1("n", Num(2)), Set1("zz", Num(1)), Set1("e", NULL),
   Set1("n", Str("a")),
   Set1("n", Num(2)) \o Set1("zz", Num(1)),
   Set1("n", Num(2)) \o Set1("e", NULL),
   Set1("e", Str("b")) \o Set1("n", Str("a"))}

UWheres == {None, WhereE(Str("a")), Where(Condition("n", "=", Num(1)))}

UUpdates == {UpdateStatement(set, where) : set \in USets, where \in UWheres}

\* The statements of the specification SpecAuto, on the table
\* t (id INTEGER PRIMARY KEY AUTO_INCREMENT, e TEXT UNIQUE NOT NULL), as
\* CREATE TABLE leaves it or after ALTER TABLE t MODIFY COLUMN id: INSERTs of
\* one or two value rows that supply 3 for id, a row with NULL for e and a
\* row of one value among them.
MaxAutoCounter == 4

AutoValueRows ==
  {<<Num(3), Str("a")>>, <<Num(3), Str("b")>>, <<Num(3), NULL>>, <<Num(3)>>}

AutoInserts ==
  {InsertStatement(None, values) :
     values \in [1..1 -> AutoValueRows] \cup [1..2 -> AutoValueRows]}

\* The statements of the specification SpecAlter: on t (e UNIQUE, n) and on
\* t (id, e), one ALTER of each kind, with the unique column e renamed to x
\* and the column n made unique, and INSERTs that repeat a value of n and of
\* the renamed column.
RenameE == [kind |-> "RENAME_COLUMN", oldName |-> "e", newName |-> "x"]
ModifyNUnique == [kind |-> "MODIFY_COLUMN",
                  column |-> Column("n", "INTEGER", {"UNIQUE"})]

AlterCreates ==
  {CreateStatement(PlainColumns, FALSE), CreateStatement(KeyedColumns, FALSE)}

AlterAlters ==
  {AlterStatement(a) : a \in {AddId, DropN, RenameE, ModifyNUnique}}

AlterInserts ==
  {InsertStatement([names |-> <<"e", "n">>], <<<<Str(v), Num(1)>>>>) :
     v \in {"a", "b"}}
  \cup {InsertStatement([names |-> <<"x">>], <<<<Str(v)>>>>) : v \in {"a", "A"}}

\* The statements of the specification SpecText: on t (e UNIQUE, n),
\* INSERTs that repeat a value, SELECTs from t and from the missing table u,
\* and the texts of up to two tokens among SHOW, TABLES, DESCRIBE, t, u
\* and the semicolon.
TextCreates == {CreateStatement(PlainColumns, FALSE)}

TextInserts ==
  {InsertStatement([names |-> <<"e">>], <<<<Str(v)>>>>) : v \in {"a", "b"}}

TextSelects ==
  {SelectStatement(Star, None, NULL),
   SelectStatement([names |-> <<"e">>], WhereE(Str("a")), Num(1)),
   [SelectStatement(Star, None, NULL) EXCEPT !.from = "u"]}

TextTokens ==
  {Token("SHOW", "SHOW"), Token("TABLES", "TABLES"),
   Token("DESCRIBE", "DESCRIBE"), Token("IDENTIFIER", "t"),
   Token("IDENTIFIER", "u"), Token("SEMICOLON", ";")}

MaxTokens == 2

Texts == UNION {[1..n -> TextTokens] : n \in 0..MaxTokens}

\* The statements of the specification SpecSnapshot, on t (e UNIQUE, n),
\* and the value a caller writes into the column e of a row it was given.
SnapshotInserts ==
  {InsertStatement([names |-> <<"e">>], <<<<Str(v)>>>>) : v \in {"a", "b"}}

SnapshotUpdates == {UpdateStatement(Set1("e", Str("b")), WhereE(Str("a")))}

SnapshotDeletes == {DeleteStatement(WhereE(Str("a")))}

SnapshotAlters == {AlterStatement(RenameN)}

SnapshotSelects ==
  {SelectStatement(Star, WhereE(Str("a")), Num(1)),
   SelectStatement([names |-> <<"e">>], None, NULL)}

CallerValues == {Str("z")}

\* The statements of the specification Spec.
SessionCreates ==
  {CreateStatement(KeyedColumns, FALSE), CreateStatement(PlainColumns, TRUE)}

SessionDrops == {DropStatement(FALSE)}

SessionAlters == {AlterStatement(AddId)}

SessionInserts ==
  {InsertStatement([names |-> <<"e">>], <<<<v>>>>) : v \in {Str("a"), Str("b")}}

SessionUpdates == {UpdateStatement(Set1("e", Str("b")), None)}

SessionDeletes == {DeleteStatement(WhereE(Str("a")))}

SessionSelects == {SelectStatement(Star, None, NULL)}

(***************************************************************************)
(* The session (RDBMS).  tables is the committed catalog, a function from  *)
(* table names to table storages; transactionTables is the shadow catalog  *)
(* or None.  result is the result of the last statement.  last, issued and *)
(* beginTables are history variables: the statement executed last (for     *)
(* COMMIT and ROLLBACK with the catalog at BEGIN and the two catalogs the  *)
(* statement found), the values each table's counter has assigned since    *)
(* the table was created (per catalog), and the committed catalog as it    *)
(* was at the BEGIN of the open transaction.                               *)
(* heap is used by the specification SpecSnapshot, where rows are objects  *)
(* that the table and a result can share: ids is the identity of the row   *)
(* object at each position of the row array of t, and held is the          *)
(* result the caller holds, None or [rows |-> the rows of the last SELECT], *)
(* each as [object, value], object the identity of the row object (0 for   *)
(* an object only the result refers to) and value what it holds now.       *)
(***************************************************************************)
VARIABLES tables, inTransaction, transactionTables, result, last, issued,
          beginTables, heap

vars == <<tables, inTransaction, transactionTables, result, last, issued,
          beginTables, heap>>

\* No row object is tracked and the caller holds no result.
NoHeap == [ids |-> <<>>, held |-> None]

Init ==
  /\ tables = <<>>
  /\ inTransaction = FALSE
  /\ transactionTables = None
  /\ result = [success |-> TRUE, type |-> "NONE"]
  /\ last = [type |-> "NONE"]
  /\ issued = [committed |-> <<>>, shadow |-> <<>>]
  /\ beginTables = None
  /\ heap = NoHeap

\* executeStatement dispatching every statement to the committed catalog.
UsesShadow_Mutant == FALSE

\* executeStatement: the catalog the statement is run against.
UsesShadow == inTransaction /\ transactionTables # None

CurrentTables == IF UsesShadow THEN transactionTables ELSE tables

\* The values assigned so far, after a statement on the table `name`.
IssuedAfter(old, after, name, assigned) ==
  [n \in DOMAIN after |->
     (IF n \in DOMAIN old THEN old[n] ELSE {})
     \cup (IF n = name THEN assigned ELSE {})]

\* An executor has run against the catalog in effect and left `outcome`.
Executed(statement, outcome, name) ==
  /\ result' = outcome.result
  /\ last' = statement
  /\ IF UsesShadow
     THEN /\ transactionTables' = outcome.tables
          /\ tables' = tables
          /\ issued' = [issued EXCEPT !.shadow =
                          IssuedAfter(@, outcome.tables, name, outcome.assigned)]
     ELSE /\ tables' = outcome.tables
          /\ transactionTables' = transactionTables
          /\ issued' = [issued EXCEPT !.committed =
                          IssuedAfter(@, outcome.tables, name, outcome.assigned)]
  /\ UNCHANGED <<inTransaction, beginTables, heap>>

\* INSERT is offered while the table is below the bounds of the model.
WithinBounds(statement) ==
  statement.tableName \in DOMAIN CurrentTables =>
    LET table == CurrentTables[statement.tableName]
    IN  /\ Len(table.rows) + Len(statement.values) <= MaxRows
        /\ table.autoIncrementCounter + Len(statement.values) <= MaxCounter + 1

CreateTable(statement) ==
  Executed(statement, CreateTableExecute(statement, CurrentTables),
           statement.tableName)

DropTable(statement) ==
  Executed(statement, DropTableExecute(statement, CurrentTables),
           statement.tableName)

AlterTable(statement) ==
  Executed(statement, AlterTableExecute(statement, CurrentTables),
           statement.tableName)

Insert(statement) ==
  /\ WithinBounds(statement)
  /\ Executed(statement, InsertExecute(statement, CurrentTables),
           statement.tableName)

Update(statement) ==
  Executed(statement, UpdateExecute(statement, CurrentTables),
           statement.tableName)

Delete(statement) ==
  Executed(statement, DeleteExecute(statement, CurrentTables),
           statement.from)

Select(statement) ==
  Executed(statement, SelectExecute(statement, CurrentTables),
           statement.from)

TransactionError(message) == ErrorResult("TRANSACTION_ERROR", message, "NONE", "")

OkResult == [success |-> TRUE, type |-> "OK"]

\* The history of a statement that closes the open transaction.
Closing(type) ==
  [type |-> type, atBegin |-> beginTables, committed |-> tables,
   shadow |-> transactionTables]

\* beginTransaction opening the transaction without a shadow catalog.
Begin_Mutant ==
  IF inTransaction
  THEN /\ result' = TransactionError("Transaction already in progress")
       /\ last' = [type |-> "BEGIN"]
       /\ UNCHANGED <<tables, inTransaction, transactionTables, issued, beginTables, heap>>
  ELSE /\ transactionTables' = None
       /\ inTransaction' = TRUE
       /\ result' = OkResult
       /\ last' = [type |-> "BEGIN"]
       /\ issued' = [issued EXCEPT !.shadow = issued.committed]
       /\ beginTables' = tables
       /\ UNCHANGED heap
       /\ UNCHANGED tables

\* beginTransaction
Begin ==
  IF inTransaction
  THEN /\ result' = TransactionError("Transaction already in progress")
       /\ last' = [type |-> "BEGIN"]
       /\ UNCHANGED <<tables, inTransaction, transactionTables, issued, beginTables, heap>>
  ELSE /\ transactionTables' = [name \in DOMAIN tables |-> clone(tables[name])]
       /\ inTransaction' = TRUE
       /\ result' = OkResult
       /\ last' = [type |-> "BEGIN"]
       /\ issued' = [issued EXCEPT !.shadow = issued.committed]
       /\ beginTables' = tables
       /\ UNCHANGED heap
       /\ UNCHANGED tables

\* commitTransaction closing the transaction without installing the shadow.
Commit_Mutant ==
  IF ~inTransaction \/ transactionTables = None
  THEN /\ result' = TransactionError("No transaction in progress")
       /\ last' = [type |-> "COMMIT"]
       /\ UNCHANGED <<tables, inTransaction, transactionTables, issued, beginTables, heap>>
  ELSE /\ tables' = tables
       /\ transactionTables' = None
       /\ inTransaction' = FALSE
       /\ result' = OkResult
       /\ last' = Closing("COMMIT")
       /\ issued' = [committed |-> issued.shadow, shadow |-> <<>>]
       /\ beginTables' = None
       /\ UNCHANGED heap

\* commitTransaction
Commit ==
  IF ~inTransaction \/ transactionTables = None
  THEN /\ result' = TransactionError("No transaction in progress")
       /\ last' = [type |-> "COMMIT"]
       /\ UNCHANGED <<tables, inTransaction, transactionTables, issued, beginTables, heap>>
  ELSE /\ tables' = transactionTables
       /\ transactionTables' = None
       /\ inTransaction' = FALSE
       /\ result' = OkResult
       /\ last' = Closing("COMMIT")
       /\ issued' = [committed |-> issued.shadow, shadow |-> <<>>]
       /\ beginTables' = None
       /\ UNCHANGED heap

\* rollbackTransaction closing a transaction whether or not one is open.
Rollback_Mutant ==
  /\ transactionTables' = None
  /\ inTransaction' = FALSE
  /\ result' = OkResult
  /\ last' = Closing("ROLLBACK")
  /\ issued' = [issued EXCEPT !.shadow = <<>>]
  /\ beginTables' = None
  /\ UNCHANGED heap
  /\ UNCHANGED tables

\* rollbackTransaction
Rollback ==
  IF ~inTransaction
  THEN /\ result' = TransactionError("No transaction in progress")
       /\ last' = [type |-> "ROLLBACK"]
       /\ UNCHANGED <<tables, inTransaction, transactionTables, issued, beginTables, heap>>
  ELSE /\ transactionTables' = None
       /\ inTransaction' = FALSE
       /\ result' = OkResult
       /\ last' = Closing("ROLLBACK")
       /\ issued' = [issued EXCEPT !.shadow = <<>>]
       /\ beginTables' = None
       /\ UNCHANGED heap
       /\ UNCHANGED tables

ShowTables ==
  Executed([type |-> "SHOW_TABLES"],
           ShowTablesExecute([type |-> "SHOW_TABLES"], CurrentTables), "")

\* execute, when the parser throws, closing the open transaction.
Thrown_Mutant(tokens, error) ==
  /\ result' = ErrorResult("SYNTAX_ERROR", error.message, "NONE", "")
  /\ last' = [type |-> "TEXT", tokens |-> tokens]
  /\ inTransaction' = FALSE
  /\ transactionTables' = None
  /\ UNCHANGED <<tables, issued, beginTables, heap>>

\* execute, when the parser throws: the error is returned as the result.
Thrown(tokens, error) ==
  /\ result' = ErrorResult("SYNTAX_ERROR", error.message, "NONE", "")
  /\ last' = [type |-> "TEXT", tokens |-> tokens]
  /\ UNCHANGED <<tables, inTransaction, transactionTables, issued, beginTables, heap>>

\* executeStatement for DESCRIBE, dropping the table it describes.
Describe_Mutant(statement) ==
  Executed(statement,
           DropTableExecute([type |-> "DROP_TABLE",
                             tableName |-> statement.tableName,
                             ifExists |-> TRUE], CurrentTables),
           statement.tableName)

\* executeStatement for DESCRIBE
Describe(statement) ==
  Executed(statement, DescribeExecute(statement, CurrentTables),
           statement.tableName)

\* execute on the text with the given tokens
Execute(tokens) ==
  LET statement == parse(tokens)
  IN  IF statement.type = "THROWN" THEN Thrown(tokens, statement)
      ELSE IF statement.type = "SHOW_TABLES" THEN ShowTables
      ELSE Describe(statement)

(***************************************************************************)
(* The statements with the row objects tracked, outside transactions.      *)
(***************************************************************************)
\* The identities in use, by the table or by the result held.
UsedObjects ==
  Range(heap.ids)
  \cup (IF heap.held = None THEN {}
        ELSE {heap.held.rows[i].object : i \in DOMAIN heap.held.rows})

\* The identities of `count` new objects: the least ones not in use, from k.
RECURSIVE FreshObjects(_, _, _)
FreshObjects(used, count, k) ==
  IF count = 0 THEN <<>>
  ELSE IF k \in used THEN FreshObjects(used, count, k + 1)
  ELSE <<k>> \o FreshObjects(used, count - 1, k + 1)

\* An executor has run against the committed catalog, leaving the row
\* objects `ids` in the table and the result `held` with the caller.
ExecutedOnObjects(statement, outcome, ids, held) ==
  /\ tables' = outcome.tables
  /\ result' = outcome.result
  /\ last' = statement
  /\ heap' = [ids |-> ids, held |-> held]
  /\ UNCHANGED <<inTransaction, transactionTables, issued, beginTables>>

\* insertRow pushes a row object it has built.
InsertedObjects(before, after) ==
  heap.ids \o FreshObjects(UsedObjects, Len(after) - Len(before), 1)

InsertSnapshot(statement) ==
  /\ WithinBounds(statement)
  /\ ExecutedOnObjects(statement, InsertExecute(statement, tables),
       InsertedObjects(tables["t"].rows,
                       InsertExecute(statement, tables).tables["t"].rows),
       heap.held)

\* What the objects of the held rows hold once the table's row objects hold
\* `rows`: updateRows writes into the row objects of the table.
Rewritten(held, ids, rows) ==
  IF held = None THEN None
  ELSE [rows |->
          [i \in DOMAIN held.rows |->
             IF \E p \in DOMAIN ids : ids[p] = held.rows[i].object
             THEN [held.rows[i] EXCEPT !.value =
                     rows[CHOOSE p \in DOMAIN ids : ids[p] = held.rows[i].object]]
             ELSE held.rows[i]]]

UpdateSnapshot(statement) ==
  ExecutedOnObjects(statement, UpdateExecute(statement, tables), heap.ids,
    Rewritten(heap.held, heap.ids,
              UpdateExecute(statement, tables).tables["t"].rows))

\* deleteRows splices the row objects out of the row array.
DeleteSnapshot(statement) ==
  ExecutedOnObjects(statement, DeleteExecute(statement, tables),
    spliceFrom(heap.ids,
               matchingIndicesFrom(tables["t"].rows, statement.where, 1), 1),
    heap.held)

\* ADD, DROP and RENAME COLUMN map every row to a new object; MODIFY COLUMN
\* passes the row objects on.
AlteredObjects(statement, success) ==
  IF success /\ statement.action.kind # "MODIFY_COLUMN"
  THEN FreshObjects(UsedObjects, Len(heap.ids), 1)
  ELSE heap.ids

AlterSnapshot(statement) ==
  ExecutedOnObjects(statement, AlterTableExecute(statement, tables),
    AlteredObjects(statement,
                   AlterTableExecute(statement, tables).result.success),
    heap.held)

\* The positions (1-based) of the rows SELECT returns: those that pass the
\* WHERE clause, up to the LIMIT.
SelectedPositions(statement, rows) ==
  LET Passes(p) == \/ statement.where = None
                   \/ filterRows(<<rows[p]>>, statement.where) # <<>>
      passing == SelectSeq([p \in DOMAIN rows |-> p], Passes)
  IN  IF statement.limit # NULL THEN Slice(passing, statement.limit.n)
      ELSE passing

\* The rows of the result: for * the row objects of the table
\* (Array.from copies the array, filter and slice keep the objects), for a
\* column list the objects projectColumns has built.
ReturnedObjects(statement, outcome, rows) ==
  IF ~outcome.result.success THEN heap.held
  ELSE IF statement.columns = Star
  THEN [rows |->
          [i \in DOMAIN SelectedPositions(statement, rows) |->
             [object |-> heap.ids[SelectedPositions(statement, rows)[i]],
              value |-> rows[SelectedPositions(statement, rows)[i]]]]]
  ELSE [rows |->
          [i \in DOMAIN outcome.result.rows |->
             [object |-> 0, value |-> outcome.result.rows[i]]]]

SelectSnapshot(statement) ==
  ExecutedOnObjects(statement, SelectExecute(statement, tables), heap.ids,
    ReturnedObjects(statement, SelectExecute(statement, tables),
                    tables["t"].rows))

\* The row array of t after the caller's write into the object.
WrittenThrough(object, column, value) ==
  [p \in DOMAIN tables["t"].rows |->
     IF heap.ids[p] = object
     THEN [tables["t"].rows[p] EXCEPT ![column] = value]
     ELSE tables["t"].rows[p]]

\* The caller assigns a value to a column of the i-th row of the result it
\* holds.
CallerWrite(i, column, value) ==
  /\ heap.held # None
  /\ i \in DOMAIN heap.held.rows
  /\ column \in DOMAIN heap.held.rows[i].value
  /\ heap' = [heap EXCEPT !.held.rows[i].value[column] = value]
  /\ tables' = [tables EXCEPT !["t"].rows =
                  WrittenThrough(heap.held.rows[i].object, column, value)]
  /\ last' = [type |-> "CALLER_WRITE", row |-> i, column |-> column,
              value |-> value]
  /\ UNCHANGED <<inTransaction, transactionTables, result, issued, beginTables>>

\* The history of a reset: whether it found a transaction open, and the
\* committed catalog it found.
Resetting == [type |-> "RESET", open |-> inTransaction, committed |-> tables]

\* reset emptying the committed catalog and leaving the transaction open.
Reset_Mutant ==
  /\ tables' = <<>>
  /\ last' = Resetting
  /\ issued' = [issued EXCEPT !.committed = <<>>]
  /\ UNCHANGED <<inTransaction, transactionTables, result, beginTables, heap>>

\* reset: no result is returned.
Reset ==
  /\ tables' = <<>>
  /\ inTransaction' = FALSE
  /\ transactionTables' = None
  /\ last' = Resetting
  /\ issued' = [committed |-> <<>>, shadow |-> <<>>]
  /\ beginTables' = None
  /\ UNCHANGED heap
  /\ UNCHANGED result

CreateTableAction(statements) == \E statement \in statements : CreateTable(statement)
DropTableAction(statements) == \E statement \in statements : DropTable(statement)
AlterTableAction(statements) == \E statement \in statements : AlterTable(statement)
InsertAction(statements) == \E statement \in statements : Insert(statement)
UpdateAction(statements) == \E statement \in statements : Update(statement)
DeleteAction(statements) == \E statement \in statements : Delete(statement)
SelectAction(statements) == \E statement \in statements : Select(statement)

\* The session: statements and transaction control.
Next ==
  \/ CreateTableAction(SessionCreates)
  \/ DropTableAction(SessionDrops)
  \/ AlterTableAction(SessionAlters)
  \/ InsertAction(SessionInserts)
  \/ UpdateAction(SessionUpdates)
  \/ DeleteAction(SessionDeletes)
  \/ SelectAction(SessionSelects)
  \/ Begin
  \/ Commit
  \/ Rollback

Spec == Init /\ [][Next]_vars

\* The session with reset() and SHOW TABLES.
NextReset ==
  \/ CreateTableAction(SessionCreates)
  \/ InsertAction(SessionInserts)
  \/ Begin
  \/ Commit
  \/ Rollback
  \/ ShowTables
  \/ Reset

SpecReset == Init /\ [][NextReset]_vars

\* The session without transactions: every statement runs against the
\* committed catalog.
NextStorage ==
  \/ CreateTableAction(StorageCreates)
  \/ DropTableAction(StorageDrops)
  \/ AlterTableAction(StorageAlters)
  \/ InsertAction(StorageInserts)
  \/ UpdateAction(StorageUpdates)
  \/ DeleteAction(StorageDeletes)
  \/ SelectAction(StorageSelects)

SpecStorage == Init /\ [][NextStorage]_vars

\* The session without transactions and schema changes: tables are
\* created, and rows inserted, updated, deleted and selected.
NextDML ==
  \/ CreateTableAction(DMLCreates)
  \/ InsertAction(DMLInserts)
  \/ UpdateAction(DMLUpdates)
  \/ DeleteAction(DMLDeletes)
  \/ SelectAction(DMLSelects)

SpecDML == Init /\ [][NextDML]_vars

\* The session without transactions, with the schema statements in all
\* their branches: tables are created, dropped and altered, with and
\* without rows.
NextSchema ==
  \/ CreateTableAction(SchemaCreates)
  \/ DropTableAction(SchemaDrops)
  \/ AlterTableAction(SchemaAlters)
  \/ InsertAction(SchemaInserts)
  \/ UpdateAction(SchemaUpdates)
  \/ DeleteAction(SchemaDeletes)

SpecSchema == Init /\ [][NextSchema]_vars

\* The session without transactions on a catalog of two tables: tables
\* are created and dropped, with and without the IF flags, and rows
\* inserted.
NextCatalog ==
  \/ CreateTableAction(CatalogCreates)
  \/ DropTableAction(CatalogDrops)
  \/ InsertAction(CatalogInserts)

SpecCatalog == Init /\ [][NextCatalog]_vars

\* The table a CREATE TABLE and the INSERTs of the value rows leave.
RECURSIVE insertAll(_, _, _)
insertAll(table, datas, i) ==
  IF i > Len(datas) THEN table
  ELSE insertAll(insertRow(table, datas[i]).table, datas, i + 1)

CreatedWith(name, columns, datas) ==
  insertAll(CreateTableExecute(Named(CreateStatement(columns, FALSE), name),
                               <<>>).tables[name],
            datas, 1)

SeqsUpTo(set, n) == UNION {[1..m -> set] : m \in 0..n}

\* The session after a CREATE TABLE and the INSERTs of the value rows.
Filled(name, columns, datas) ==
  /\ tables = [n \in {name} |-> CreatedWith(name, columns, datas)]
  /\ inTransaction = FALSE
  /\ transactionTables = None
  /\ result = [success |-> TRUE, type |-> "NONE"]
  /\ last = [type |-> "NONE"]
  /\ issued = [committed |-> [n \in {name} |-> {}], shadow |-> <<>>]
  /\ beginTables = None
  /\ heap = NoHeap

InitWhere ==
  \E datas \in SeqsUpTo(WData, MaxWhereRows) : Filled("w", WColumns, datas)

\* The session without transactions on the filled table w: rows are
\* selected and deleted by WHERE clauses of up to three conditions.
NextWhere ==
  \/ SelectAction(WhereSelects)
  \/ DeleteAction(WhereDeletes)

SpecWhere == InitWhere /\ [][NextWhere]_vars

InitCompare ==
  \E datas \in SeqsUpTo(VData, MaxCompareRows) : Filled("v", VColumns, datas)

\* The session without transactions on the filled table v: rows are
\* selected and deleted by one comparison of a column with a literal.
NextCompare ==
  \/ SelectAction(CompareSelects)
  \/ DeleteAction(CompareDeletes)

SpecCompare == InitCompare /\ [][NextCompare]_vars

\* The session after CREATE TABLE l, CREATE TABLE r and the INSERTs of the
\* value rows.
InitJoin ==
  \E ldatas \in SeqsUpTo(LData, MaxJoinRows), rdatas \in SeqsUpTo(RData, MaxJoinRows) :
    /\ tables = [n \in {"l", "r"} |->
                  IF n = "l" THEN CreatedWith("l", LColumns, ldatas)
                  ELSE CreatedWith("r", RColumns, rdatas)]
    /\ inTransaction = FALSE
    /\ transactionTables = None
    /\ result = [success |-> TRUE, type |-> "NONE"]
    /\ last = [type |-> "NONE"]
    /\ issued = [committed |-> [n \in {"l", "r"} |-> {}], shadow |-> <<>>]
    /\ beginTables = None
    /\ heap = NoHeap

\* The session without transactions on the filled tables l and r: the rows
\* of l are joined with the rows of r.
NextJoin == SelectAction(JoinSelects)

SpecJoin == InitJoin /\ [][NextJoin]_vars

InitInsert == Filled("t", PlainColumns, <<>>)

\* INSERT with several value rows, offered while the table and the value
\* rows together are within the bound.
InsertMany(statement) ==
  /\ Len(CurrentTables["t"].rows) + Len(statement.values) <= MaxInsertRows
  /\ Executed(statement, InsertExecute(statement, CurrentTables), "t")

\* The session without transactions on the table t, empty at first.
NextInsert == \E statement \in ManyInserts : InsertMany(statement)

SpecInsert == InitInsert /\ [][NextInsert]_vars

InitUpdate ==
  \E datas \in SeqsUpTo(UData, MaxUpdateRows) : Filled("t", UColumns, datas)

\* The session without transactions on the filled table t: rows are updated.
NextUpdate == UpdateAction(UUpdates)

SpecUpdate == InitUpdate /\ [][NextUpdate]_vars

\* The session after CREATE TABLE t, with or without a following
\* ALTER TABLE t MODIFY COLUMN id.
InitAuto ==
  \E modified \in BOOLEAN :
    LET created == CreateTableExecute(CreateStatement(KeyedColumns, FALSE), <<>>).tables
    IN  /\ tables = IF modified
                    THEN AlterTableExecute(AlterStatement(ModifyId), created).tables
                    ELSE created
        /\ inTransaction = FALSE
        /\ transactionTables = None
        /\ result = [success |-> TRUE, type |-> "NONE"]
        /\ last = [type |-> "NONE"]
        /\ issued = [committed |-> [n \in {"t"} |-> {}], shadow |-> <<>>]
        /\ beginTables = None
        /\ heap = NoHeap

\* INSERT offered while the counter is within the bound.
InsertAuto(statement) ==
  /\ CurrentTables["t"].autoIncrementCounter + Len(statement.values) <= MaxAutoCounter + 1
  /\ Executed(statement, InsertExecute(statement, CurrentTables), "t")

\* The session without transactions on the table t with its auto-increment
\* key.
NextAuto == \E statement \in AutoInserts : InsertAuto(statement)

SpecAuto == InitAuto /\ [][NextAuto]_vars

\* The session without transactions: tables are created and altered in
\* each of the four ways, and rows are inserted before and after.
NextAlter ==
  \/ CreateTableAction(AlterCreates)
  \/ AlterTableAction(AlterAlters)
  \/ InsertAction(AlterInserts)

SpecAlter == Init /\ [][NextAlter]_vars

\* The session with texts that are parsed: tables are created and filled,
\* rows are selected, SHOW TABLES, DESCRIBE and texts that do not parse are
\* executed, inside and outside transactions.
NextText ==
  \/ CreateTableAction(TextCreates)
  \/ InsertAction(TextInserts)
  \/ SelectAction(TextSelects)
  \/ \E tokens \in Texts : Execute(tokens)
  \/ Begin
  \/ Commit
  \/ Rollback

SpecText == Init /\ [][NextText]_vars

\* The session after CREATE TABLE t (e TEXT UNIQUE, n INTEGER).
InitSnapshot ==
  /\ tables = CreateTableExecute(CreateStatement(PlainColumns, FALSE), <<>>).tables
  /\ inTransaction = FALSE
  /\ transactionTables = None
  /\ result = [success |-> TRUE, type |-> "NONE"]
  /\ last = [type |-> "NONE"]
  /\ issued = [committed |-> <<>>, shadow |-> <<>>]
  /\ beginTables = None
  /\ heap = NoHeap

\* The session without transactions with the row objects tracked: the
\* caller keeps the rows of the last SELECT and may write into them.
NextSnapshot ==
  \/ \E statement \in SnapshotInserts : InsertSnapshot(statement)
  \/ \E statement \in SnapshotUpdates : UpdateSnapshot(statement)
  \/ \E statement \in SnapshotDeletes : DeleteSnapshot(statement)
  \/ \E statement \in SnapshotAlters : AlterSnapshot(statement)
  \/ \E statement \in SnapshotSelects : SelectSnapshot(statement)
  \/ \E value \in CallerValues : CallerWrite(1, "e", value)

SpecSnapshot == InitSnapshot /\ [][NextSnapshot]_vars

InitTypes == Filled("v", VColumns, <<>>)

\* The session without transactions on the table v, empty at first: rows are
\* inserted and updated with literals of several types.
NextTypes ==
  \/ InsertAction(TypesInserts)
  \/ UpdateAction(TypesUpdates)

SpecTypes == InitTypes /\ [][NextTypes]_vars

(***************************************************************************)
(* Properties.                                                             *)
(***************************************************************************)
\* The positions (0-based) of the rows holding the normalised non-null
\* value `key` in the column.
Positions(table, columnName, key) ==
  {i - 1 : i \in {j \in DOMAIN table.rows :
                    /\ RowValue(table.rows[j], columnName) # NULL
                    /\ normalizeValue(RowValue(table.rows[j], columnName)) = key}}

\* The normalised non-null values the rows hold in the column.
LiveKeys(table, columnName) ==
  {normalizeValue(RowValue(table.rows[j], columnName)) :
     j \in {i \in DOMAIN table.rows :
              RowValue(table.rows[i], columnName) # NULL}}

UniqueValuesDistinct(table) ==
  \A column \in Range(table.schema.columns) :
    (column.unique \/ column.primaryKey) =>
      \A key \in LiveKeys(table, column.name) :
        Cardinality(Positions(table, column.name, key)) = 1

IndexMatchesRows(table, columnName) ==
  LET entries == table.indices[columnName].entries
  IN  \A key \in (DOMAIN entries \ {NULL}) \cup LiveKeys(table, columnName) :
        /\ key \in DOMAIN entries
        /\ entries[key] = Positions(table, columnName, key)

\* C1: after any sequence of INSERT, UPDATE and DELETE statements, failed
\* ones included, no two rows of a table hold the same normalised non-null
\* value in a unique or primary-key column.
C1_UniqueColumnsHoldDistinctValues ==
  \A name \in DOMAIN tables : UniqueValuesDistinct(tables[name])

\* C2: after any sequence of INSERT, UPDATE and DELETE statements, failed
\* ones included, every index maps each non-null key to exactly the positions
\* of the rows that hold the key, as a full scan of the rows would.
C2_IndexesEqualFullScan ==
  \A name \in DOMAIN tables :
    \A columnName \in DOMAIN tables[name].indices :
      IndexMatchesRows(tables[name], columnName)

\* C3: after the ROLLBACK that ends a transaction the committed catalog is
\* the committed catalog as it was at BEGIN (tables, schemas, rows, indexes
\* and counters), the shadow is gone and the transaction is closed.
C3_RollbackRestoresCatalogAtBegin ==
  (last.type = "ROLLBACK" /\ result.success) =>
    /\ tables = last.atBegin
    /\ transactionTables = None
    /\ ~inTransaction

C3_Witness ==
  /\ last.type = "ROLLBACK"
  /\ result.success
  /\ last.shadow # last.atBegin
  /\ "t" \in DOMAIN last.atBegin
  /\ tables = last.atBegin

C4_Step ==
  inTransaction =>
    /\ tables' # tables => last'.type = "COMMIT"
    /\ (last'.type = "INSERT" /\ result'.success) =>
         /\ Len(transactionTables'["t"].rows) = Len(transactionTables["t"].rows) + 1
         /\ SubSeq(transactionTables'["t"].rows, 1, Len(transactionTables["t"].rows))
              = transactionTables["t"].rows
         /\ transactionTables'["t"].rows[Len(transactionTables'["t"].rows)]["e"]
              = last'.values[1][1]
    /\ (last'.type = "SELECT" /\ result'.success) =>
         /\ result'.rows = transactionTables["t"].rows
         /\ transactionTables' = transactionTables

\* C4: while a transaction is open no statement but COMMIT changes the
\* committed catalog, a successful INSERT appends its row to the shadow
\* table, and SELECT * returns the rows of the shadow table.
C4_StatementsUseShadowOnly == [][C4_Step]_vars

C4_Witness ==
  /\ inTransaction
  /\ last.type = "SELECT"
  /\ result.success
  /\ Len(result.rows) >= 1
  /\ result.rows = transactionTables["t"].rows
  /\ "t" \in DOMAIN tables => tables["t"].rows # result.rows

\* C5: after a COMMIT of an open transaction the committed catalog is the
\* shadow catalog as it stood just before, the shadow is gone and the
\* transaction is closed, so later statements run against that catalog.
C5_CommitInstallsShadow ==
  (last.type = "COMMIT" /\ result.success) =>
    /\ tables = last.shadow
    /\ transactionTables = None
    /\ ~inTransaction
    /\ CurrentTables = last.shadow

C5_Witness ==
  /\ last.type = "COMMIT"
  /\ result.success
  /\ last.shadow # last.committed
  /\ "t" \in DOMAIN last.shadow
  /\ tables = last.shadow

HasAutoKey(table) ==
  \E column \in Range(table.schema.columns) :
    column.type = "INTEGER" /\ column.primaryKey /\ column.autoIncrement

AutoKey(table) ==
  CHOOSE column \in Range(table.schema.columns) :
    column.type = "INTEGER" /\ column.primaryKey /\ column.autoIncrement

\* The names a single-row INSERT gives its values.
InsertNames(statement, table) ==
  IF statement.columns # None THEN statement.columns.names
  ELSE [i \in DOMAIN table.schema.columns |-> table.schema.columns[i].name]

\* The value the INSERT offers for the column: the counter for the
\* auto-increment key, else the listed value (NULL when not listed).
Offered(statement, table, column) ==
  IF column.autoIncrement /\ column.primaryKey
  THEN Num(table.autoIncrementCounter)
  ELSE RowValue(rowDataFrom(InsertNames(statement, table),
                            statement.values[1], 1, <<>>), column.name)

\* Every value of the INSERT coerces to the type of its column, and no
\* other unique column receives a value a row already holds.
InsertIsClean(statement, table) ==
  /\ Len(statement.values) = 1
  /\ Len(statement.values[1]) = Len(InsertNames(statement, table))
  /\ Range(InsertNames(statement, table)) \subseteq ColumnNames(table.schema)
  /\ \A column \in Range(table.schema.columns) :
       LET validation == validate(Offered(statement, table, column),
                                  column.type, ~column.notNull)
       IN  /\ validation.valid
           /\ (column.unique /\ ~column.autoIncrement /\ validation.value # NULL)
                => normalizeValue(validation.value)
                     \notin LiveKeys(table, column.name)

C6_Step ==
  \A statement \in DMLInserts :
    (/\ last' = statement
     /\ "t" \in DOMAIN tables
     /\ HasAutoKey(tables["t"])
     /\ InsertIsClean(statement, tables["t"])) =>
      LET before == tables["t"]
          after == tables'["t"]
      IN  /\ result'.success
          /\ result'.type = "INSERT"
          /\ result'.rowsAffected = 1
          /\ result'.lastInsertId = Num(before.autoIncrementCounter)
          /\ Len(after.rows) = Len(before.rows) + 1
          /\ SubSeq(after.rows, 1, Len(before.rows)) = before.rows
          /\ after.rows[Len(after.rows)][AutoKey(before).name]
               = Num(before.autoIncrementCounter)

\* C6: a single-row INSERT into a table with an INTEGER PRIMARY KEY
\* AUTO_INCREMENT column, whose values coerce and collide with no row in
\* another unique column, succeeds with rowsAffected 1, appends one row
\* keyed by the counter held before and reports that key as lastInsertId.
C6_AutoIncrementInsertSucceeds == [][C6_Step]_vars

C7_Step ==
  \A statement \in DMLInserts :
    (/\ last' = statement
     /\ Len(statement.values) = 1
     /\ ~result'.success
     /\ result'.error.type = "CONSTRAINT_VIOLATION") =>
      tables' = tables

\* C7: a single-row INSERT that returns a constraint violation leaves the
\* rows, the indexes and the auto-increment counter of the table as they
\* were.
C7_FailedInsertHasNoEffect == [][C7_Step]_vars

C8_Step ==
  /\ \A name \in DOMAIN tables \cap DOMAIN tables' :
       tables'[name].autoIncrementCounter >= tables[name].autoIncrementCounter
  /\ \A name \in DOMAIN tables' :
       \A value \in issued'.committed[name] :
         value < tables'[name].autoIncrementCounter

\* C8: across INSERT (successful or failed), UPDATE, DELETE and ALTER TABLE
\* the auto-increment counter of a table never decreases and is greater
\* than every value it has assigned.
C8_CounterMonotoneAboveAssigned == [][C8_Step]_vars

C8_Witness ==
  /\ last.type = "DELETE"
  /\ result.success
  /\ result.rowsAffected >= 1
  /\ "t" \in DOMAIN tables
  /\ HasAutoKey(tables["t"])
  /\ \E value \in issued.committed["t"] :
       /\ value < tables["t"].autoIncrementCounter
       /\ \A i \in DOMAIN tables["t"].rows :
            tables["t"].rows[i][AutoKey(tables["t"]).name] # Num(value)

PrimaryKeyValuesSound(table) ==
  \A column \in Range(table.schema.columns) :
    column.primaryKey =>
      /\ \A i \in DOMAIN table.rows : RowValue(table.rows[i], column.name) # NULL
      /\ \A i, j \in DOMAIN table.rows :
           i # j => RowValue(table.rows[i], column.name)
                      # RowValue(table.rows[j], column.name)

\* C10: after every INSERT, UPDATE, DELETE or ALTER TABLE that takes
\* effect, each row's value in a primary-key column is non-null and no two
\* rows share it.
C10_PrimaryKeyNonNullUnique ==
  (last.type \in {"INSERT", "UPDATE", "DELETE", "ALTER_TABLE"} /\ result.success) =>
    \A name \in DOMAIN tables : PrimaryKeyValuesSound(tables[name])

NotNullColumnsHoldValues(table) ==
  \A column \in Range(table.schema.columns) :
    column.notNull =>
      \A i \in DOMAIN table.rows : RowValue(table.rows[i], column.name) # NULL

\* C11: after every statement that takes effect, ALTER TABLE ADD COLUMN and
\* MODIFY COLUMN on a table with rows included, no row holds NULL in a
\* column whose current definition is NOT NULL.
C11_NotNullColumnsHoldNoNull ==
  result.success =>
    \A name \in DOMAIN tables : NotNullColumnsHoldValues(tables[name])

\* C12: after every INSERT, UPDATE, DELETE or ALTER TABLE that takes
\* effect, the key set of every row of every table is exactly the set of
\* column names of the table's current schema.
C12_RowsHaveExactlySchemaColumns ==
  (last.type \in {"INSERT", "UPDATE", "DELETE", "ALTER_TABLE"} /\ result.success) =>
    \A name \in DOMAIN tables :
      \A i \in DOMAIN tables[name].rows :
        DOMAIN tables[name].rows[i] = ColumnNames(tables[name].schema)

\* C13: in every reachable state no index holds an entry under the key
\* NULL, so rows holding NULL in a unique column never collide.
C13_NoIndexHoldsNullKey ==
  \A name \in DOMAIN tables :
    \A columnName \in DOMAIN tables[name].indices :
      NULL \notin DOMAIN tables[name].indices[columnName].entries

IsTransactionError(r) ==
  ~r.success /\ r.type = "ERROR" /\ r.error.type = "TRANSACTION_ERROR"

C14_Step ==
  /\ (last'.type = "BEGIN" /\ inTransaction) =>
       /\ IsTransactionError(result')
       /\ inTransaction'
       /\ transactionTables' = transactionTables
       /\ tables' = tables
  /\ (last'.type \in {"COMMIT", "ROLLBACK"} /\ ~inTransaction) =>
       /\ IsTransactionError(result')
       /\ tables' = tables
       /\ ~inTransaction'
       /\ transactionTables' = None

\* C14: BEGIN inside an open transaction returns TRANSACTION_ERROR and
\* leaves the transaction open with its shadow catalog as it was; COMMIT
\* or ROLLBACK with no transaction open returns TRANSACTION_ERROR and
\* leaves the committed catalog as it was and no transaction open.
C14_TransactionErrorsChangeNothing == [][C14_Step]_vars

C14_Witness ==
  /\ last.type = "BEGIN"
  /\ IsTransactionError(result)
  /\ inTransaction
  /\ "t" \in DOMAIN transactionTables
  /\ Len(transactionTables["t"].rows) >= 1
  /\ transactionTables # tables

\* C15: after any sequence of CREATE TABLE and ALTER TABLE statements,
\* every column with the auto-increment flag has the primary-key flag and
\* the declared type INTEGER.
C15_AutoIncrementIsIntegerPrimaryKey ==
  \A name \in DOMAIN tables :
    \A column \in Range(tables[name].schema.columns) :
      column.autoIncrement => column.primaryKey /\ column.type = "INTEGER"

\* C16: after any sequence of CREATE TABLE and ALTER TABLE statements,
\* every table has at most one column with the primary-key flag, and every
\* such column also has the unique and not-null flags.
C16_PrimaryKeyFlagsSound ==
  \A name \in DOMAIN tables :
    LET columns == tables[name].schema.columns
    IN  /\ Cardinality({i \in DOMAIN columns : columns[i].primaryKey}) <= 1
        /\ \A i \in DOMAIN columns :
             columns[i].primaryKey => columns[i].unique /\ columns[i].notNull

\* C17: after any sequence of CREATE TABLE and ALTER TABLE statements, no
\* two columns of a table's schema have the same name.
C17_ColumnNamesUnique ==
  \A name \in DOMAIN tables :
    LET columns == tables[name].schema.columns
    IN  \A i, j \in DOMAIN columns :
          columns[i].name = columns[j].name => i = j

C18_Step ==
  (last'.type \in {"CREATE_TABLE", "DROP_TABLE", "ALTER_TABLE"} /\ ~result'.success) =>
    tables' = tables

\* C18: a CREATE TABLE, DROP TABLE or ALTER TABLE that returns an error
\* result leaves the catalog as it was: the same tables, each with its
\* schema, rows, indexes and counter.
C18_FailedSchemaStatementChangesNothing == [][C18_Step]_vars

C18_Witness ==
  /\ last.type = "ALTER_TABLE"
  /\ ~result.success
  /\ result.error.type = "COLUMN_NOT_FOUND"
  /\ "t" \in DOMAIN tables
  /\ Len(tables["t"].rows) >= 1

\* The catalog after DROP TABLE IF EXISTS name.
AfterDropIfExists(name, catalog) ==
  DropTableExecute(Named(DropStatement(TRUE), name), catalog).tables

C19_OriginalStep ==
  last'.type = "CREATE_TABLE" =>
    AfterDropIfExists(last'.tableName, tables') = tables

\* C19 as stated: from every catalog state and for every table name n,
\* CREATE TABLE n followed by DROP TABLE IF EXISTS n leaves the catalog as
\* it was before the CREATE TABLE.
C19_CreateThenDropRestoresCatalog == [][C19_OriginalStep]_vars

C19_Step ==
  last'.type = "CREATE_TABLE" =>
    LET n == last'.tableName
        after == AfterDropIfExists(n, tables')
    IN  /\ n \notin DOMAIN tables => after = tables
        /\ n \in DOMAIN tables =>
             /\ DOMAIN after = DOMAIN tables \ {n}
             /\ \A other \in DOMAIN after : after[other] = tables[other]

\* C19 amended: when n is absent from the catalog, CREATE TABLE n followed
\* by DROP TABLE IF EXISTS n leaves the catalog as it was before the
\* CREATE TABLE, whether the CREATE succeeds or is rejected; when n is
\* present, the pair removes the existing table n and leaves the others.
C19_CreateThenDropRestoresCatalogWithoutName == [][C19_Step]_vars

C19_Witness ==
  /\ last.type = "CREATE_TABLE"
  /\ last.tableName = "u"
  /\ result.success
  /\ "u" \in DOMAIN tables
  /\ "t" \in DOMAIN tables
  /\ Len(tables["t"].rows) >= 1
  /\ AfterDropIfExists("u", tables) = [name \in {"t"} |-> tables["t"]]

C20_Step ==
  /\ (/\ last'.type = "CREATE_TABLE"
      /\ last'.ifNotExists
      /\ last'.tableName \in DOMAIN tables) =>
       /\ result'.success
       /\ result'.type = "CREATE_TABLE"
       /\ tables' = tables
  /\ (last'.type = "DROP_TABLE" /\ last'.tableName \notin DOMAIN tables) =>
       /\ tables' = tables
       /\ IF last'.ifExists
          THEN result'.success /\ result'.type = "DROP_TABLE"
          ELSE ~result'.success /\ result'.error.type = "TABLE_NOT_FOUND"

\* C20: CREATE TABLE IF NOT EXISTS on an existing name succeeds as
\* CREATE_TABLE and leaves the table (schema, rows, indexes, counter) as it
\* was, whatever its column list; DROP TABLE on an absent name leaves the
\* catalog as it was, succeeding as DROP_TABLE with IF EXISTS and returning
\* TABLE_NOT_FOUND without.
C20_IfFlagsMakeNoOps == [][C20_Step]_vars

C20_Witness ==
  /\ last = CreateStatement(KeyedColumns, TRUE)
  /\ result.success
  /\ result.type = "CREATE_TABLE"
  /\ "t" \in DOMAIN tables
  /\ tables["t"].schema.primaryKey = NoPrimaryKey
  /\ Len(tables["t"].rows) >= 1

\* c1 op1 c2 op2 c3 ... read from left to right on a row of w, each
\* keyword applied to the value so far and the next condition.
RECURSIVE LeftToRight(_, _, _, _, _)
LeftToRight(row, simple, operators, i, soFar) ==
  IF i > Len(operators) THEN soFar
  ELSE LeftToRight(row, simple, operators, i + 1,
         IF operators[i] = "AND"
         THEN soFar /\ row[simple[i + 1].column] = simple[i + 1].value
         ELSE soFar \/ row[simple[i + 1].column] = simple[i + 1].value)

Satisfies(row, simple, operators) ==
  LeftToRight(row, simple, operators, 1, row[simple[1].column] = simple[1].value)

C21_Step ==
  \A simple \in WSimple, operators \in WOperators :
    LET where == WClause(simple, operators)
        rows == tables["w"].rows
        Chosen(row) == Satisfies(row, simple, operators)
        Left(row) == ~Satisfies(row, simple, operators)
    IN  /\ last' = From(SelectStatement(Star, where, NULL), "w") =>
             result'.rows = SelectSeq(rows, Chosen)
        /\ last' = From(DeleteStatement(where), "w") =>
             /\ tables'["w"].rows = SelectSeq(rows, Left)
             /\ result'.rowsAffected = Len(SelectSeq(rows, Chosen))

\* C21: a WHERE clause c1 op1 c2 op2 c3 with AND and OR is evaluated from
\* left to right as ((c1 op1 c2) op2 c3), AND and OR binding alike; SELECT
\* returns and DELETE removes exactly the rows that satisfy it.
C21_WhereIsLeftAssociative == [][C21_Step]_vars

C21_Witness ==
  /\ tables["w"].rows =
       <<[a |-> Num(1), b |-> Num(1), c |-> Num(1)],
         [a |-> Num(1), b |-> Num(0), c |-> Num(1)],
         [a |-> Num(0), b |-> Num(1), c |-> Num(0)]>>
  /\ last = From(SelectStatement(Star,
              parseWhere(<<Condition("a", "=", Num(1)),
                           Condition("b", "=", Num(1)),
                           Condition("c", "=", Num(0))>>, <<"OR", "AND">>),
              NULL), "w")
  /\ result.rows = <<[a |-> Num(0), b |-> Num(1), c |-> Num(0)]>>

\* The outcome C22 gives a comparison with a NULL operand.
NullComparison(left, operator, right) ==
  operator = "=" /\ left = NULL /\ right = NULL

C22_Step ==
  \A where \in VWheres :
    LET condition == where.conditions[1]
        rows == tables["v"].rows
        HasNull(row) == row[condition.column] = NULL \/ condition.value = NULL
        Chosen(row) ==
          NullComparison(row[condition.column], condition.operator,
                         condition.value)
        NullChosen(row) == HasNull(row) /\ Chosen(row)
        NullLeft(row) == HasNull(row) /\ ~Chosen(row)
    IN  /\ last' = From(SelectStatement(Star, where, NULL), "v") =>
             SelectSeq(result'.rows, HasNull) = SelectSeq(rows, NullChosen)
        /\ last' = From(DeleteStatement(where), "v") =>
             SelectSeq(tables'["v"].rows, HasNull) = SelectSeq(rows, NullLeft)

\* C22: in the WHERE of SELECT and DELETE a comparison with a NULL operand
\* is true exactly for = with both operands NULL; !=, <, >, <=, >= and
\* LIKE with a NULL operand are false.
C22_NullComparisons == [][C22_Step]_vars

\* A non-null value with no number to coerce to: a BOOLEAN, or a TEXT that
\* is not the form of a number.
NotANumber(value) ==
  \/ value.k = "bool"
  \/ value.k = "str" /\ value.s \notin IntegerStrings

C23_Step ==
  \A where \in {w \in VWheres : w.conditions[1].operator \in {"<", ">", "<=", ">="}} :
    LET condition == where.conditions[1]
        rows == tables["v"].rows
        Uncompared(row) ==
          /\ row[condition.column] # NULL
          /\ condition.value # NULL
          /\ NotANumber(row[condition.column]) \/ NotANumber(condition.value)
    IN  /\ last' = From(SelectStatement(Star, where, NULL), "v") =>
             SelectSeq(result'.rows, Uncompared) = <<>>
        /\ last' = From(DeleteStatement(where), "v") =>
             SelectSeq(tables'["v"].rows, Uncompared) = SelectSeq(rows, Uncompared)

\* C23: in the WHERE of SELECT and DELETE an ordering comparison <, >, <=
\* or >= with a non-null operand that has no number to coerce to is false:
\* the row is neither returned nor deleted.
C23_UncoercibleOrderingIsFalse == [][C23_Step]_vars

\* The kind of the values of a declared type.
DeclaredKind(type) ==
  CASE type = "INTEGER" -> "num"
    [] type = "TEXT" -> "str"
    [] type = "BOOLEAN" -> "bool"

RowsAreTyped(table) ==
  \A i \in DOMAIN table.rows : \A column \in Range(table.schema.columns) :
    \/ RowValue(table.rows[i], column.name) = NULL
    \/ RowValue(table.rows[i], column.name).k = DeclaredKind(column.type)

\* The INSERT of one value row into v stores the coerced forms at the end of
\* the table, or is rejected for a column whose value does not coerce.
InsertIsCoerced(statement, before, after, outcome) ==
  LET columns == before.schema.columns
      coerced == [i \in DOMAIN columns |->
                    validate(statement.values[1][i], columns[i].type, TRUE)]
      rejected == {columns[i].name : i \in {j \in DOMAIN columns : ~coerced[j].valid}}
  IN  IF rejected = {}
      THEN /\ outcome.success
           /\ Len(after.rows) = Len(before.rows) + 1
           /\ \A i \in DOMAIN columns :
                RowValue(after.rows[Len(after.rows)], columns[i].name) = coerced[i].value
      ELSE /\ ~outcome.success
           /\ outcome.error.type = "CONSTRAINT_VIOLATION"
           /\ outcome.error.violation = "TYPE_MISMATCH"
           /\ outcome.error.column \in rejected
           /\ after.rows = before.rows

\* The UPDATE of one column of v stores the coerced form in every matching
\* row, or is rejected for the column.
UpdateIsCoerced(statement, before, after, outcome) ==
  LET set == statement.set[1]
      coerced == validate(set.value, FindColumn(before.schema, set.column).type, TRUE)
  IN  IF coerced.valid
      THEN /\ outcome.success
           /\ \A i \in DOMAIN before.rows :
                evaluateWhere(before.rows[i], statement.where) =>
                  RowValue(after.rows[i], set.column) = coerced.value
      ELSE /\ ~outcome.success
           /\ outcome.error.type = "CONSTRAINT_VIOLATION"
           /\ outcome.error.violation = "TYPE_MISMATCH"
           /\ outcome.error.column = set.column
           /\ after.rows = before.rows

C24_Step ==
  /\ RowsAreTyped(tables'["v"])
  /\ \A statement \in TypesInserts :
       last' = statement =>
         InsertIsCoerced(statement, tables["v"], tables'["v"], result')
  /\ \A statement \in TypesUpdates :
       last' = statement =>
         UpdateIsCoerced(statement, tables["v"], tables'["v"], result')

\* C24: on a table that is not altered, INSERT and UPDATE leave every
\* non-null stored value a value of its column's declared type: a written
\* value that coerces is stored in its coerced form ('2' in an INTEGER column
\* as 2, 'yes' in a BOOLEAN column as true), and one that does not coerce is
\* rejected with a TYPE_MISMATCH constraint violation naming the column.
C24_StoredValuesHaveDeclaredType == [][C24_Step]_vars

\* The left row passes the WHERE of a statement of JoinSelects.
PassesJoinWhere(row, where) == where = None \/ row.p = Num(1)

\* The pairs (position in l, position in r) of an inner join, and the
\* place of a pair in the left-major order of the pairs.
JoinPairs(leftRows, rightRows, where) ==
  {pair \in (DOMAIN leftRows) \X (DOMAIN rightRows) :
     /\ PassesJoinWhere(leftRows[pair[1]], where)
     /\ leftRows[pair[1]].a = rightRows[pair[2]].b}

PlaceAmong(pairs, pair) ==
  1 + Cardinality({q \in pairs : \/ q[1] < pair[1]
                                 \/ q[1] = pair[1] /\ q[2] < pair[2]})

C25_Step ==
  \A where \in JoinWheres :
    last' = JoinStatement("INNER", "r", where) =>
      LET leftRows == tables["l"].rows
          rightRows == tables["r"].rows
          pairs == JoinPairs(leftRows, rightRows, where)
      IN  /\ result'.success
          /\ Len(result'.rows) = Cardinality(pairs)
          /\ \A pair \in pairs :
               LET row == result'.rows[PlaceAmong(pairs, pair)]
               IN  /\ DOMAIN row = {"l.a", "l.p", "r.b"}
                   /\ row["l.a"] = leftRows[pair[1]].a
                   /\ row["l.p"] = leftRows[pair[1]].p
                   /\ row["r.b"] = rightRows[pair[2]].b

\* C25: SELECT * FROM l INNER JOIN r ON a = b returns, in left-major order,
\* exactly one row for every pair of a left row that passed WHERE and a right
\* row whose values l.a and r.b are strictly equal, without case
\* normalisation, and no other row; the row holds every left column under
\* l.<name> and every right column under r.<name>.
C25_InnerJoinPairsEqualKeys == [][C25_Step]_vars

\* An inner join with WHERE has returned two rows while r holds a key that
\* differs from a key of l by case only.
C25_Witness ==
  /\ last = JoinStatement("INNER", "r", Where(Condition("p", "=", Num(1))))
  /\ result.success /\ result.rowCount = 2
  /\ \E i \in DOMAIN tables["l"].rows, j \in DOMAIN tables["r"].rows :
       /\ tables["l"].rows[i].a = Str("a")
       /\ tables["l"].rows[i].p = Num(1)
       /\ tables["r"].rows[j].b = Str("A")

\* The left rows that enter the join: those that passed WHERE, in order.
PassedWhere(rows, where) ==
  LET Passes(row) == PassesJoinWhere(row, where)
  IN  SelectSeq(rows, Passes)

\* The positions of the rows holding the key in the column, and the number
\* of result rows a row with this key gets: max(1, m).
Matching(key, rows, column) == {j \in DOMAIN rows : rows[j][column] = key}

Times(key, rows, column) ==
  IF Matching(key, rows, column) = {} THEN 1
  ELSE Cardinality(Matching(key, rows, column))

\* The number of result rows that precede those of the i-th outer row.
RECURSIVE Preceding(_, _, _, _, _)
Preceding(outer, outerColumn, inner, innerColumn, i) ==
  IF i = 1 THEN 0
  ELSE Preceding(outer, outerColumn, inner, innerColumn, i - 1)
       + Times(outer[i - 1][outerColumn], inner, innerColumn)

MergedOf(row, leftRow, rightRow) ==
  /\ DOMAIN row = {"l.a", "l.p", "r.b"}
  /\ row["l.a"] = leftRow.a /\ row["l.p"] = leftRow.p /\ row["r.b"] = rightRow.b

LeftJoinIs(rows, leftRows, rightRows) ==
  /\ Len(rows) = Preceding(leftRows, "a", rightRows, "b", Len(leftRows) + 1)
  /\ \A i \in DOMAIN leftRows :
       LET matching == Matching(leftRows[i].a, rightRows, "b")
           at == Preceding(leftRows, "a", rightRows, "b", i)
       IN  IF matching = {}
           THEN /\ DOMAIN rows[at + 1]
                     = {"l.a", "l.p"} \cup (IF rightRows = <<>> THEN {} ELSE {"r.b"})
                /\ rows[at + 1]["l.a"] = leftRows[i].a
                /\ rows[at + 1]["l.p"] = leftRows[i].p
                /\ rightRows # <<>> => rows[at + 1]["r.b"] = NULL
           ELSE \A j \in matching :
                  MergedOf(rows[at + 1 + Cardinality({q \in matching : q < j})],
                           leftRows[i], rightRows[j])

\* leftAbsent: the case in which an unmatched right row gets no left column.
RightJoinIs(rows, leftRows, rightRows, leftAbsent) ==
  /\ Len(rows) = Preceding(rightRows, "b", leftRows, "a", Len(rightRows) + 1)
  /\ \A j \in DOMAIN rightRows :
       LET matching == Matching(rightRows[j].b, leftRows, "a")
           at == Preceding(rightRows, "b", leftRows, "a", j)
       IN  IF matching = {}
           THEN /\ DOMAIN rows[at + 1]
                     = {"r.b"} \cup (IF leftAbsent THEN {} ELSE {"l.a", "l.p"})
                /\ rows[at + 1]["r.b"] = rightRows[j].b
                /\ ~leftAbsent => /\ rows[at + 1]["l.a"] = NULL
                                  /\ rows[at + 1]["l.p"] = NULL
           ELSE \A i \in matching :
                  MergedOf(rows[at + 1 + Cardinality({q \in matching : q < i})],
                           leftRows[i], rightRows[j])

C26_LeftStep ==
  \A where \in JoinWheres :
    last' = JoinStatement("LEFT", "r", where) =>
      /\ result'.success
      /\ LeftJoinIs(result'.rows, PassedWhere(tables["l"].rows, where),
                    tables["r"].rows)

C26_OriginalStep ==
  /\ C26_LeftStep
  /\ \A where \in JoinWheres :
       last' = JoinStatement("RIGHT", "r", where) =>
         /\ result'.success
         /\ RightJoinIs(result'.rows, PassedWhere(tables["l"].rows, where),
                        tables["r"].rows, tables["l"].rows = <<>>)

C26_AmendedStep ==
  /\ C26_LeftStep
  /\ \A where \in JoinWheres :
       last' = JoinStatement("RIGHT", "r", where) =>
         /\ result'.success
         /\ RightJoinIs(result'.rows, PassedWhere(tables["l"].rows, where),
                        tables["r"].rows,
                        PassedWhere(tables["l"].rows, where) = <<>>)

\* C26: in a LEFT JOIN every left row appears max(1, m) times, m its number
\* of matching right rows, and an unmatched left row yields one row whose
\* right columns are all NULL with the key set of the first right row, absent
\* when the right table is empty; RIGHT JOIN is the mirror image, the left
\* columns of an unmatched right row being absent when the left table is
\* empty.
C26_OuterJoinKeepsEveryRow == [][C26_OriginalStep]_vars

\* C26 amended: as C26, the left rows being those that passed WHERE: in a
\* RIGHT JOIN the left columns of an unmatched right row have the key set of
\* the first left row that passed WHERE and are absent when none passed.
C26_OuterJoinKeepsEveryRowThatPassed == [][C26_AmendedStep]_vars

\* A RIGHT JOIN whose WHERE no row of the non-empty table l passed has
\* returned an unmatched right row without left columns.
C26_Witness ==
  /\ last = JoinStatement("RIGHT", "r", Where(Condition("p", "=", Num(1))))
  /\ tables["l"].rows # <<>>
  /\ result.success /\ result.rowCount >= 1
  /\ DOMAIN result.rows[1] = {"r.b"}

C27_Step ==
  \A simple \in WSimple, operators \in WOperators :
    LET d == From(DeleteStatement(WClause(simple, operators)), "w")
        rows == tables["w"].rows
    IN  last' = d =>
          /\ result'.success
          /\ result'.rowsAffected
               = Cardinality({i \in DOMAIN rows : Satisfies(rows[i], simple, operators)})
          /\ last = d => /\ result'.rowsAffected = 0
                         /\ tables' = tables

\* C27: a DELETE executed twice in a row returns as rowsAffected first the
\* number of rows that satisfied its WHERE and then 0, and the second
\* execution leaves the table unchanged.
C27_SecondDeleteAffectsNoRow == [][C27_Step]_vars

\* A DELETE that had deleted two rows has been executed again.
C27_Witness ==
  /\ last.type = "DELETE"
  /\ result.success /\ result.rowsAffected = 0
  /\ tables["w"].rows # <<>>
  /\ \E datas \in SeqsUpTo(WData, MaxWhereRows) :
       /\ Len(datas) = Len(tables["w"].rows) + 2
       /\ DeleteExecute(last, [n \in {"w"} |-> CreatedWith("w", WColumns, datas)]).tables
            = tables

C28_Step ==
  /\ last'.type = "RESET" =>
       /\ tables' = <<>>
       /\ inTransaction' = FALSE
       /\ transactionTables' = None
  /\ (last.type = "RESET" /\ last'.type \in {"COMMIT", "ROLLBACK"}) =>
       /\ ~result'.success
       /\ result'.error.type = "TRANSACTION_ERROR"
  /\ (last.type = "RESET" /\ last'.type = "SHOW_TABLES") =>
       /\ result'.success
       /\ result'.tables = <<>>

\* C28: reset(), with or without a transaction open, leaves an empty catalog
\* and no transaction: a COMMIT or ROLLBACK that follows it returns
\* TRANSACTION_ERROR and a SHOW TABLES that follows it returns the empty list.
C28_ResetEmptiesTheSession == [][C28_Step]_vars

\* reset() has found a transaction open on a catalog that held a table.
C28_Witness ==
  /\ last.type = "RESET"
  /\ last.open
  /\ last.committed # <<>>
  /\ tables = <<>> /\ ~inTransaction

\* The row holds the new value of every SET column.
HoldsNew(row, set) ==
  \A u \in DOMAIN set : RowValue(row, set[u].column) = set[u].value

\* The row holds in every SET column the value the row `old` holds.
HoldsOld(row, old, set) ==
  \A u \in DOMAIN set : RowValue(row, set[u].column) = RowValue(old, set[u].column)

\* The matching rows (0-based positions, ascending) before the j-th are
\* updated and the j-th and later ones are as they were.
UpdatedBefore(before, after, matching, set, j) ==
  \A k \in DOMAIN matching :
    IF k < j THEN HoldsNew(after[matching[k] + 1], set)
    ELSE HoldsOld(after[matching[k] + 1], before[matching[k] + 1], set)

C29_Step ==
  \A statement \in DMLUpdates :
    (/\ last' = statement
     /\ ~result'.success
     /\ result'.error.violation = "UNIQUE") =>
      LET before == tables["t"].rows
          after == tables'["t"].rows
          matching == matchingIndicesFrom(before, statement.where, 1)
      IN  /\ result'.error.type = "CONSTRAINT_VIOLATION"
          /\ Len(after) = Len(before)
          /\ \E j \in DOMAIN matching :
               UpdatedBefore(before, after, matching, statement.set, j)

\* C29: an UPDATE that fails with a unique violation at the j-th matching
\* row returns CONSTRAINT_VIOLATION; the matching rows before the j-th hold
\* all their new values, and the j-th and every later matching row hold
\* their old values in every SET column.
C29_FailedUpdateKeepsEarlierRows == [][C29_Step]_vars

\* The value row cannot be inserted into rows: it has not one value for the
\* one column named, or its key is held already.
FailsOn(rows, valueRow) ==
  \/ Len(valueRow) # 1
  \/ \E i \in DOMAIN rows : rows[i].e = valueRow[1]

C30_Step ==
  \A statement \in ManyInserts :
    last' = statement =>
      LET before == tables["t"].rows
          after == tables'["t"].rows
          values == statement.values
          k == Len(after) - Len(before) + 1
      IN  /\ k \in 1..(Len(values) + 1)
          /\ SubSeq(after, 1, Len(before)) = before
          /\ \A i \in 1..(k - 1) :
               /\ ~FailsOn(SubSeq(after, 1, Len(before) + i - 1), values[i])
               /\ after[Len(before) + i] = [e |-> values[i][1], n |-> NULL]
          /\ IF k <= Len(values)
             THEN ~result'.success /\ FailsOn(after, values[k])
             ELSE result'.success

\* C30: an INSERT with the value rows r1..rn whose k-th row is the first to
\* fail, by its number of values or by a constraint, returns an error, leaves
\* r1..r(k-1) inserted in order at the end of the table and inserts none of
\* rk..rn.
C30_InsertStopsAtFirstFailingRow == [][C30_Step]_vars

\* An INSERT of three value rows has failed at its third row on a table that
\* held a row before.
C30_Witness ==
  /\ last \in ManyInserts
  /\ Len(last.values) = 3
  /\ ~result.success
  /\ Len(tables["t"].rows) = 3
  /\ tables["t"].rows[2].e = last.values[1][1]
  /\ tables["t"].rows[3].e = last.values[2][1]

\* The SET entry is rejected on t (e TEXT UNIQUE NOT NULL, n INTEGER): its
\* column is unknown, it gives NULL for e, or a string that is no integer
\* for n.
RejectedEntry(entry) ==
  \/ entry.column \notin {"e", "n"}
  \/ entry.column = "e" /\ entry.value = NULL
  \/ /\ entry.column = "n"
     /\ entry.value.k = "str"
     /\ entry.value.s \notin IntegerStrings

C31_Step ==
  \A statement \in UUpdates :
    (/\ last' = statement
     /\ \E u \in DOMAIN statement.set : RejectedEntry(statement.set[u])) =>
      /\ ~result'.success
      /\ tables' = tables

\* C31: an UPDATE whose SET list names a column that is not in the schema,
\* or gives a value that does not coerce to its column's type, NULL for a
\* NOT NULL column included, returns an error and changes no row and no
\* index, whatever rows its WHERE matches and wherever in the SET list the
\* entry stands.
C31_RejectedUpdateChangesNothing == [][C31_Step]_vars

\* An UPDATE of every row whose second SET entry is rejected has returned
\* its error on a table that holds rows.
C31_Witness ==
  /\ last \in UUpdates
  /\ Len(last.set) = 2
  /\ RejectedEntry(last.set[2])
  /\ last.where = None
  /\ ~result.success
  /\ tables["t"].rows # <<>>

\* The rows the INSERT has stored hold, in order, the counter values from
\* the one the table held before.
StoredRowsHoldCounter(before, after) ==
  /\ SubSeq(after.rows, 1, Len(before.rows)) = before.rows
  /\ \A i \in 1..(Len(after.rows) - Len(before.rows)) :
       after.rows[Len(before.rows) + i].id
         = Num(before.autoIncrementCounter + i - 1)

\* The number of value rows handed to insertRow: all of them, or those up
\* to the first that failed, that one included unless it was rejected for
\* its number of values.
HandedToInsertRow(values, stored, success) ==
  IF success THEN Len(values)
  ELSE IF Len(values[stored + 1]) # 2 THEN stored
  ELSE stored + 1

C32_OriginalStep ==
  \A statement \in AutoInserts :
    last' = statement =>
      /\ StoredRowsHoldCounter(tables["t"], tables'["t"])
      /\ tables'["t"].autoIncrementCounter
           = tables["t"].autoIncrementCounter + Len(statement.values)

C32_AmendedStep ==
  \A statement \in AutoInserts :
    last' = statement =>
      /\ StoredRowsHoldCounter(tables["t"], tables'["t"])
      /\ result'.success =>
           Len(tables'["t"].rows) = Len(tables["t"].rows) + Len(statement.values)
      /\ tables'["t"].autoIncrementCounter
           = tables["t"].autoIncrementCounter
             + HandedToInsertRow(statement.values,
                 Len(tables'["t"].rows) - Len(tables["t"].rows), result'.success)

Survivors(rows, where) ==
  LET Kept(row) == ~evaluateWhere(row, where)
  IN  SelectSeq(rows, Kept)

\* The row appended last is found through every index by the value it holds.
LastRowFound(table) ==
  LET position == Len(table.rows) - 1
      row == table.rows[Len(table.rows)]
  IN  \A columnName \in DOMAIN table.indices :
        RowValue(row, columnName) # NULL =>
          lookup(table.indices[columnName], RowValue(row, columnName))
            = {position}

C33_Step ==
  /\ \A statement \in DMLDeletes :
       (last' = statement /\ result'.success) =>
         /\ tables'["t"].rows = Survivors(tables["t"].rows, statement.where)
         /\ \A columnName \in DOMAIN tables'["t"].indices :
              IndexMatchesRows(tables'["t"], columnName)
  /\ \A statement \in DMLInserts :
       (/\ last.type = "DELETE" /\ result.success
        /\ last' = statement /\ result'.success
        /\ Len(statement.values) = 1) =>
         /\ Len(tables'["t"].rows) = Len(tables["t"].rows) + 1
         /\ SubSeq(tables'["t"].rows, 1, Len(tables["t"].rows)) = tables["t"].rows
         /\ LastRowFound(tables'["t"])

\* C33: after every DELETE the surviving rows keep their relative order and
\* every index maps each non-null key to exactly the positions of the rows
\* that hold it in the shortened row vector; an INSERT that follows is placed
\* at the position equal to the row count and a lookup by its unique value
\* finds it there.
C33_DeleteRebuildsIndexes == [][C33_Step]_vars

\* The same for a DELETE on a table whose unique columns hold distinct values.
C33_StepDistinct ==
  UniqueValuesDistinct(IF "t" \in DOMAIN tables THEN tables["t"]
                       ELSE [schema |-> [columns |-> <<>>], rows |-> <<>>]) =>
    C33_Step

C33_DeleteRebuildsIndexesOfDistinctRows == [][C33_StepDistinct]_vars

\* The names of the columns flagged primary-key or unique.
FlaggedColumns(schema) ==
  {column.name : column \in {c \in Range(schema.columns) : c.primaryKey \/ c.unique}}

\* The row holds the normalised value in the column.
HoldsKey(row, columnName, value) ==
  /\ columnName \in DOMAIN row
  /\ row[columnName] # NULL
  /\ normalizeValue(row[columnName]) = normalizeValue(value)

C34_Step ==
  /\ \A statement \in AlterAlters :
       (last' = statement /\ result'.success) =>
         /\ DOMAIN tables'["t"].indices = FlaggedColumns(tables'["t"].schema)
         /\ \A columnName \in DOMAIN tables'["t"].indices :
              IndexMatchesRows(tables'["t"], columnName)
         /\ tables'["t"].autoIncrementCounter = tables["t"].autoIncrementCounter
  /\ \A statement \in AlterInserts :
       (/\ last' = statement
        /\ statement.columns.names = <<"x">>
        /\ "t" \in DOMAIN tables
        /\ \E i \in DOMAIN tables["t"].rows :
             HoldsKey(tables["t"].rows[i], "x", statement.values[1][1])) =>
         /\ ~result'.success
         /\ result'.error.type = "CONSTRAINT_VIOLATION"
         /\ tables'["t"].rows = tables["t"].rows

\* C34: after every successful ALTER TABLE (ADD, DROP, RENAME or MODIFY
\* COLUMN) the table has an index for exactly the primary-key and unique
\* columns of the new schema, each mapping every non-null key to the
\* positions of the new rows that hold it, and the auto-increment counter is
\* unchanged; a unique column that was renamed rejects a duplicate value
\* under its new name.
C34_AlterRebuildsIndexes == [][C34_Step]_vars

\* The same for every ALTER TABLE that leaves distinct values in the
\* primary-key and unique columns of the new schema.
C34_StepDistinct ==
  \/ "t" \in DOMAIN tables' /\ ~UniqueValuesDistinct(tables'["t"])
  \/ C34_Step

C34_AlterRebuildsIndexesOfDistinctRows == [][C34_StepDistinct]_vars

\* A duplicate of a value of the renamed unique column x has been rejected.
C34_RenamedWitness ==
  /\ last \in AlterInserts /\ last.columns.names = <<"x">>
  /\ ~result.success /\ result.error.type = "CONSTRAINT_VIOLATION"
  /\ \E i \in DOMAIN tables["t"].rows :
       HoldsKey(tables["t"].rows[i], "x", last.values[1][1])

\* Every table of the catalog is in the later catalog with its schema and
\* its rows.
Kept(before, after) ==
  /\ DOMAIN before = DOMAIN after
  /\ \A name \in DOMAIN before :
       /\ after[name].schema = before[name].schema
       /\ after[name].rows = before[name].rows

C35_Step ==
  /\ (inTransaction /\ ~result'.success) =>
       /\ inTransaction'
       /\ tables' = tables
       /\ transactionTables' # None
       /\ Kept(transactionTables, transactionTables')
  /\ (inTransaction /\ ~result.success /\ last'.type = "COMMIT") =>
       /\ result'.success
       /\ ~inTransaction'
       /\ tables' = transactionTables

\* C35: a statement that returns an error while a transaction is open (a
\* text that does not parse, TABLE_NOT_FOUND, a constraint violation) leaves
\* the transaction open and the tables, schemas and rows of the shadow
\* catalog as they were, and a COMMIT that follows installs the shadow
\* catalog as the committed one.
C35_ErrorKeepsTransactionOpen == [][C35_Step]_vars

\* A text has failed to parse inside a transaction that had created and
\* filled the table t, which is in the shadow catalog only.
C35_Witness ==
  /\ inTransaction /\ ~result.success
  /\ last.type = "TEXT"
  /\ tables = <<>>
  /\ transactionTables # None /\ "t" \in DOMAIN transactionTables
  /\ transactionTables["t"].rows # <<>>

C38_Step ==
  last'.type \in {"SELECT", "SHOW_TABLES", "DESCRIBE", "TEXT"} =>
    /\ tables' = tables
    /\ transactionTables' = transactionTables
    /\ inTransaction' = inTransaction

\* C38: SELECT, SHOW TABLES and DESCRIBE, whether they succeed or fail, and
\* every text that fails to parse, leave the committed catalog, the shadow
\* catalog (tables, schemas, rows, indexes, counters) and the transaction
\* flag as they were.
C38_ReadsChangeNothing == [][C38_Step]_vars

\* DESCRIBE t has succeeded inside a transaction on a table with rows.
C38_Witness ==
  /\ last.type = "DESCRIBE" /\ result.success
  /\ inTransaction
  /\ transactionTables["t"].rows # <<>>
  /\ result.schema = transactionTables["t"].schema

\* The values of the rows of the result held, in order.
HeldValues(h) ==
  IF h.held = None THEN <<>>
  ELSE [i \in DOMAIN h.held.rows |-> h.held.rows[i].value]

C37_Step ==
  /\ last'.type \in {"UPDATE", "DELETE", "ALTER_TABLE"} =>
       HeldValues(heap') = HeldValues(heap)
  /\ last'.type = "CALLER_WRITE" => tables' = tables

\* C37: the rows a SELECT has returned are a snapshot: a later UPDATE, DELETE
\* or ALTER TABLE changes no value of a row of the earlier result, and a
\* caller's write into a returned row does not change the table.
C37_SelectReturnsSnapshot == [][C37_Step]_vars

\* The same for the result of a SELECT with a column list.
C37_StepProjected ==
  (/\ heap.held # None
   /\ \A i \in DOMAIN heap.held.rows : heap.held.rows[i].object = 0) =>
    C37_Step

C37_ProjectedSelectReturnsSnapshot == [][C37_StepProjected]_vars

\* The schema's primary-key name and unique column names agree with the
\* flags of its columns.
SchemaNamesSound(schema) ==
  /\ \/ schema.primaryKey = NoPrimaryKey
     \/ \E column \in Range(schema.columns) :
          column.name = schema.primaryKey /\ column.primaryKey
  /\ Range(schema.uniqueColumns) = FlaggedColumns(schema)

\* C39: after any sequence of CREATE TABLE and ALTER TABLE statements, a
\* schema's primary-key name is absent or the name of a column of the schema
\* with the primary-key flag, and its unique column names are exactly the
\* columns flagged unique or primary-key, also after the primary-key or a
\* unique column was dropped or renamed.
C39_SchemaNamesMatchFlags ==
  \A name \in DOMAIN tables : SchemaNamesSound(tables[name].schema)

\* The same after CREATE TABLE alone.
C39_CreatedSchemaNamesMatchFlags ==
  (last.type = "CREATE_TABLE" /\ result.success) => C39_SchemaNamesMatchFlags

\* The UPDATE sets the unique column e of the one row it matches to the
\* value the row holds or to a case variant of it; the result is the 0-based
\* position of the row, or -1.
SameKeyPosition(statement, table) ==
  LET matching == matchingIndicesFrom(table.rows, statement.where, 1)
  IN  IF /\ Len(statement.set) = 1
         /\ statement.set[1].column = "e"
         /\ statement.set[1].value # NULL
         /\ "e" \in DOMAIN table.indices
         /\ Len(matching) = 1
         /\ RowValue(table.rows[matching[1] + 1], "e") # NULL
         /\ normalizeValue(RowValue(table.rows[matching[1] + 1], "e"))
              = normalizeValue(statement.set[1].value)
      THEN matching[1]
      ELSE 0 - 1

C36_Step ==
  \A statement \in DMLUpdates :
    (/\ last' = statement
     /\ "t" \in DOMAIN tables
     /\ SameKeyPosition(statement, tables["t"]) >= 0) =>
       /\ result'.success
       /\ result'.rowsAffected = 1
       /\ tables'["t"].rows[SameKeyPosition(statement, tables["t"]) + 1].e
            = statement.set[1].value
       /\ lookup(tables'["t"].indices["e"], statement.set[1].value)
            = {SameKeyPosition(statement, tables["t"])}

============================================================================
